---- MODULE Spec2Model ----
(***************************************************************************)
(* Model of the behav_analysis trial pipeline: build_trial_data joins the   *)
(* per-session tables into one trial table, and add_reaction_time_columns,  *)
(* add_gng_outcomes and add_stim_isi_metrics derive columns from it.        *)
(*                                                                          *)
(* Values.  A float cell is a sequence of length 0 (NaN / None / pd.NA) or  *)
(* of length 1 (a finite number).  Times are whole milliseconds.  Stimulus  *)
(* amplitudes and strengths are exact rationals [n, d] in lowest terms.     *)
(* A table is a sequence of rows, a row is a record whose domain is the     *)
(* set of its columns; cols is the column index of the table, which exists  *)
(* also when the table has no row.                                          *)
(***************************************************************************)
EXTENDS Integers, Sequences, FiniteSets, TLC

VARIABLES
    data,       \* the per-session bundles handed to build_trial_data
    df,         \* the trial table the caller holds
    cols,       \* the columns of df
    summary,    \* <<>> or <<s>>: the summary add_gng_outcomes returned last
    params,     \* the keyword arguments the derivations are called with
    rt_runs,    \* how many times add_reaction_time_columns has returned
    built,      \* "none", or the module whose build_trial_data made df
    load,       \* the call of load_all_sessions: its arguments, the folder, and
                \* whether it has returned
    err         \* "none", or the exception the last call raised

vars == <<data, df, cols, summary, params, rt_runs, built, load, err>>

----------------------------------------------------------------------------
(* Bounds of the model *)

MaxLicks == 2
MaxStim == 2
MaxTrials == 2
MaxEvents == 2
MaxRuns == 2

----------------------------------------------------------------------------
(* Floats and rationals *)

NaN == <<>>

\* load_all_sessions has not been called
NoLoad == [on_error |-> "skip", loaders |-> <<>>, disk |-> <<>>, returned |-> FALSE]

Num(v) == <<v>>

IsFinite(x) == x # NaN

Val(x) == x[1]

Min2(a, b) == IF a <= b THEN a ELSE b

Max2(a, b) == IF a >= b THEN a ELSE b

Abs(a) == IF a < 0 THEN -a ELSE a

RECURSIVE GCD(_, _)
GCD(a, b) == IF b = 0 THEN a ELSE GCD(b, a % b)

Rat(n, d) ==
    LET g == GCD(Abs(n), d)
    IN  [n |-> n \div g, d |-> d \div g]

RatAdd(p, q) == Rat(p.n * q.d + q.n * p.d, p.d * q.d)

RatMul(p, q) == Rat(p.n * q.n, p.d * q.d)

RECURSIVE SeqMin(_)
SeqMin(s) ==
    IF Len(s) = 1 THEN s[1] ELSE Min2(s[1], SeqMin(Tail(s)))

\* np.min of a non-empty array of finite values
NpMin(arr) == Num(SeqMin([k \in 1..Len(arr) |-> Val(arr[k])]))

\* arr - t0, NaN-propagating
Sub(a, b) == IF IsFinite(a) /\ IsFinite(b) THEN Num(Val(a) - Val(b)) ELSE NaN

\* np.minimum / np.maximum: NaN if either operand is NaN
NpMinimum(a, b) == IF IsFinite(a) /\ IsFinite(b) THEN Num(Min2(Val(a), Val(b))) ELSE NaN

NpMaximum(a, b) == IF IsFinite(a) /\ IsFinite(b) THEN Num(Max2(Val(a), Val(b))) ELSE NaN

NpClip(v, lo, hi) == Max2(lo, Min2(v, hi))

\* out[col] = values, on a copy: new columns are added, present ones replaced
Assign(row, new) == new @@ row

----------------------------------------------------------------------------
(* Program constants: the keyword defaults of the derivations *)

max_abs_lick == 1100000000

max_trial_ms == 20000

----------------------------------------------------------------------------
(* add_gng_outcomes (GoNoGO_ExtractRTndOutcome.py) *)

GngRequired == {"SE_strength", "TrStartTime", "RWStartTime", "RWEndTime", "LickTimes"}

OutcomeCandidates == <<"TrOutcome", "Outcome", "outcome", "TrialOutcome", "trial_outcome">>

\* the first candidate that is a column of the table, <<>> if there is none
DetectOutcomeCol(c) ==
    LET hits == SelectSeq(OutcomeCandidates, LAMBDA cand : cand \in c)
    IN  IF hits = <<>> THEN <<>> ELSE <<hits[1]>>

\* rw_lo, rw_hi: trial-relative, low/high of the two bounds, clipped
RwLo(row) ==
    LET rw0 == Sub(row.RWStartTime, row.TrStartTime)
        rw1 == Sub(row.RWEndTime, row.TrStartTime)
        lo  == NpMinimum(rw0, rw1)
    IN  IF IsFinite(lo) THEN Num(NpClip(Val(lo), 0, max_trial_ms)) ELSE NaN

RwHi(row) ==
    LET rw0 == Sub(row.RWStartTime, row.TrStartTime)
        rw1 == Sub(row.RWEndTime, row.TrStartTime)
        hi  == NpMaximum(rw0, rw1)
    IN  IF IsFinite(hi) THEN Num(NpClip(Val(hi), 0, max_trial_ms)) ELSE NaN

\* mutant of GngLickInRW: the window's bounds taken as exclusive
GngLickInRW_Exclusive(row, absolute) ==
    LET rw_lo == RwLo(row)
        rw_hi == RwHi(row)
        t0    == row.TrStartTime
        fin   == SelectSeq(row.LickTimes, IsFinite)
        arr   == SelectSeq(fin, LAMBDA x : Val(x) > 0 /\ Val(x) < max_abs_lick)
        rel0  == IF absolute THEN [k \in 1..Len(arr) |-> Sub(arr[k], t0)] ELSE arr
        rel   == SelectSeq(rel0, LAMBDA x :
                     IsFinite(x) /\ Val(x) >= 0 /\ Val(x) <= max_trial_ms)
    IN  /\ IsFinite(rw_lo) /\ IsFinite(rw_hi)
        /\ \E k \in 1..Len(rel) :
               Val(rel[k]) > Val(rw_lo) /\ Val(rel[k]) < Val(rw_hi)

\* One pass of the lick loop.  A cell that is not a list takes the same
\* `continue` as an empty list.
GngLickInRW(row, absolute) ==
    LET rw_lo == RwLo(row)
        rw_hi == RwHi(row)
        t0    == row.TrStartTime
        L     == row.LickTimes
        fin   == SelectSeq(L, IsFinite)
        arr   == SelectSeq(fin, LAMBDA x : Val(x) > 0 /\ Val(x) < max_abs_lick)
        rel0  == IF absolute THEN [k \in 1..Len(arr) |-> Sub(arr[k], t0)] ELSE arr
        rel   == SelectSeq(rel0, LAMBDA x :
                     IsFinite(x) /\ Val(x) >= 0 /\ Val(x) <= max_trial_ms)
    IN  IF ~(IsFinite(rw_lo) /\ IsFinite(rw_hi)) THEN FALSE
        ELSE IF absolute /\ ~IsFinite(t0) THEN FALSE
        ELSE IF Len(L) = 0 THEN FALSE
        ELSE IF Len(arr) = 0 THEN FALSE
        ELSE IF Len(rel) = 0 THEN FALSE
        ELSE \E k \in 1..Len(rel) :
                 Val(rel[k]) >= Val(rw_lo) /\ Val(rel[k]) <= Val(rw_hi)

StimTrial(row) == IsFinite(row.SE_strength) /\ Val(row.SE_strength).n > 0

\* mutant of NoStimTrial: a null strength filled with 0
NoStimTrial_NullAsZero(row) ==
    ~IsFinite(row.SE_strength) \/ Val(row.SE_strength).n = 0

NoStimTrial(row) == IsFinite(row.SE_strength) /\ Val(row.SE_strength).n = 0

RwValid(rw_lo, rw_hi) == IsFinite(rw_lo) /\ IsFinite(rw_hi)

IsAutoReward(orig) == IsFinite(orig) /\ Val(orig) = 5

IsPremature(orig) == IsFinite(orig) /\ Val(orig) = 6

\* mutant of CanLabel: the special codes not excluded from relabelling
CanLabel_Special(row, orig, rw_lo, rw_hi) ==
    /\ RwValid(rw_lo, rw_hi)
    /\ (StimTrial(row) \/ NoStimTrial(row))

CanLabel(row, orig, rw_lo, rw_hi) ==
    /\ RwValid(rw_lo, rw_hi)
    /\ (StimTrial(row) \/ NoStimTrial(row))
    /\ ~IsAutoReward(orig)
    /\ ~IsPremature(orig)

\* mutant of GngOutcome: Hit/Miss and FalseAlarm/CorrectRejection swapped
GngOutcome_Swapped(row, orig, rw_lo, rw_hi, lick_in_rw) ==
    LET can == CanLabel(row, orig, rw_lo, rw_hi)
        o0  == "None"
        o1  == IF IsAutoReward(orig) THEN "AutoReward" ELSE o0
        o2  == IF IsPremature(orig) THEN "PrematureLick" ELSE o1
        o3  == IF can /\ StimTrial(row) /\ ~lick_in_rw THEN "Hit" ELSE o2
        o4  == IF can /\ StimTrial(row) /\ lick_in_rw THEN "Miss" ELSE o3
        o5  == IF can /\ NoStimTrial(row) /\ ~lick_in_rw THEN "FalseAlarm" ELSE o4
        o6  == IF can /\ NoStimTrial(row) /\ lick_in_rw THEN "CorrectRejection" ELSE o5
    IN  o6

\* The masked assignments to `outcome`, in the order the code makes them:
\* a later assignment replaces an earlier one.
GngOutcome(row, orig, rw_lo, rw_hi, lick_in_rw) ==
    LET can == CanLabel(row, orig, rw_lo, rw_hi)
        o0  == "None"
        o1  == IF IsAutoReward(orig) THEN "AutoReward" ELSE o0
        o2  == IF IsPremature(orig) THEN "PrematureLick" ELSE o1
        o3  == IF can /\ StimTrial(row) /\ lick_in_rw THEN "Hit" ELSE o2
        o4  == IF can /\ StimTrial(row) /\ ~lick_in_rw THEN "Miss" ELSE o3
        o5  == IF can /\ NoStimTrial(row) /\ lick_in_rw THEN "FalseAlarm" ELSE o4
        o6  == IF can /\ NoStimTrial(row) /\ ~lick_in_rw THEN "CorrectRejection" ELSE o5
    IN  o6

\* mutant of code_map: FalseAlarm and CorrectRejection share a code
code_map_Shared ==
    [l \in {"Hit", "Miss", "FalseAlarm", "CorrectRejection", "AutoReward", "PrematureLick"} |->
        CASE l = "Hit" -> 1
          [] l = "Miss" -> 2
          [] l = "FalseAlarm" -> 4
          [] l = "CorrectRejection" -> 4
          [] l = "AutoReward" -> 5
          [] l = "PrematureLick" -> 6]

code_map ==
    [l \in {"Hit", "Miss", "FalseAlarm", "CorrectRejection", "AutoReward", "PrematureLick"} |->
        CASE l = "Hit" -> 1
          [] l = "Miss" -> 2
          [] l = "FalseAlarm" -> 3
          [] l = "CorrectRejection" -> 4
          [] l = "AutoReward" -> 5
          [] l = "PrematureLick" -> 6]

\* Series.map(code_map).astype(float): a label the map lacks gives NaN
GngCode(label) == IF label \in DOMAIN code_map THEN Num(code_map[label]) ELSE NaN

MaskEval(row, orig, rw_lo, rw_hi) ==
    \/ IsAutoReward(orig) \/ IsPremature(orig)
    \/ (RwValid(rw_lo, rw_hi) /\ (StimTrial(row) \/ NoStimTrial(row)))

order == <<"Hit", "Miss", "FalseAlarm", "CorrectRejection", "AutoReward", "PrematureLick">>

GngRow(row, ocol, absolute) ==
    LET rw_lo == RwLo(row)
        rw_hi == RwHi(row)
        lick  == GngLickInRW(row, absolute)
        label == GngOutcome(row, row[ocol], rw_lo, rw_hi, lick)
    IN  Assign(row, [RW_lo_ms |-> rw_lo, RW_hi_ms |-> rw_hi, LickInRW |-> lick,
                     Outcome_GNG |-> label, Outcome_GNG_Code |-> GngCode(label)])

\* mutant of GngSummary: the proportions taken over all rows of the table
GngSummary_AllRows(out, ocol) ==
    LET ev     == {i \in 1..Len(out) :
                      MaskEval(out[i], out[i][ocol], out[i].RW_lo_ms, out[i].RW_hi_ms)}
        counts == [k \in 1..Len(order) |->
                      Cardinality({i \in ev : out[i].Outcome_GNG = order[k]})]
        denom  == Max2(Len(out), 1)
    IN  [index |-> order,
         count |-> counts,
         proportion |-> [k \in 1..Len(order) |-> Rat(counts[k], denom)]]

\* value_counts() of the labels of the evaluable rows (null labels are not
\* counted), reindexed on `order` with 0 for an absent label; the proportions
\* are counts / max(number of evaluable rows, 1)
GngSummary(out, ocol) ==
    LET ev     == {i \in 1..Len(out) :
                      MaskEval(out[i], out[i][ocol], out[i].RW_lo_ms, out[i].RW_hi_ms)}
        seen   == {out[i].Outcome_GNG : i \in ev} \ {"None"}
        vc     == [l \in seen |-> Cardinality({i \in ev : out[i].Outcome_GNG = l})]
        counts == [k \in 1..Len(order) |->
                      IF order[k] \in DOMAIN vc THEN vc[order[k]] ELSE 0]
        denom  == Max2(Cardinality(ev), 1)
    IN  [index |-> order,
         count |-> counts,
         proportion |-> [k \in 1..Len(order) |-> Rat(counts[k], denom)]]

GngNewCols == {"RW_lo_ms", "RW_hi_ms", "LickInRW", "Outcome_GNG", "Outcome_GNG_Code"}

AddGngOutcomes ==
    LET ocol == DetectOutcomeCol(cols)
    IN  /\ err = "none"
        /\ IF GngRequired \subseteq cols /\ ocol # <<>>
           THEN /\ df' = [i \in 1..Len(df) |->
                            GngRow(df[i], ocol[1], params.lick_times_are_absolute)]
                /\ cols' = cols \cup GngNewCols
                /\ summary' = <<GngSummary(df', ocol[1])>>
                /\ err' = err
           ELSE /\ err' = "KeyError"
                /\ UNCHANGED <<df, cols, summary>>
        /\ UNCHANGED <<data, params, rt_runs, built, load>>

----------------------------------------------------------------------------
(* Trial tables handed to add_gng_outcomes *)

Restrict(row, c) == [f \in c |-> row[f]]

GngInputCols ==
    {"Trial", "SE_strength", "TrStartTime", "RWStartTime", "RWEndTime", "LickTimes", "TrOutcome"}

GngStrengths == {NaN, Num(Rat(-1, 1)), Num(Rat(0, 1)), Num(Rat(2, 1))}

GngOrigCodes == {NaN, Num(1), Num(5), Num(6)}

GngStartTimes == {NaN, Num(100)}

GngRwBounds == {NaN, Num(50), Num(300), Num(900)}

GngLickVals == {NaN, Num(0), Num(50), Num(200), Num(800), Num(900)}

\* the rows of the longer tables: one value per class of each input
GngPlainRows ==
    [Trial : {1}, SE_strength : {NaN, Num(Rat(0, 1)), Num(Rat(2, 1))},
     TrOutcome : {Num(1), Num(5)},
     TrStartTime : {Num(100)}, RWStartTime : {NaN, Num(300)}, RWEndTime : {Num(900)},
     LickTimes : {<<>>, <<Num(500)>>}]

Renumber(t) == [i \in 1..Len(t) |-> [t[i] EXCEPT !.Trial = i]]

DefaultParams ==
    [lick_times_are_absolute |-> TRUE, early_lick_cutoff_ms |-> Num(500), plot |-> TRUE]

\* one trial with every input of the classification varied
InitGngRich ==
    /\ cols = GngInputCols
    /\ \E se \in GngStrengths, oc \in GngOrigCodes, t0 \in GngStartTimes,
          s \in GngRwBounds, e \in GngRwBounds, n \in 0..MaxLicks :
          \E L \in [1..n -> GngLickVals] :
             df = <<[Trial |-> 1, SE_strength |-> se, TrOutcome |-> oc, TrStartTime |-> t0,
                     RWStartTime |-> s, RWEndTime |-> e, LickTimes |-> L]>>

\* up to MaxTrials trials.  A table of no trial is not among them:
\* build_trial_data returns it without any column.
InitGngTable ==
    /\ cols = GngInputCols
    /\ \E n \in 1..MaxTrials : \E t \in [1..n -> GngPlainRows] : df = Renumber(t)

\* a table that lacks one of the columns add_gng_outcomes reads
InitGngMissing ==
    \E c \in GngInputCols \ {"Trial"} :
       /\ cols = GngInputCols \ {c}
       /\ \E r \in GngPlainRows : df = <<Restrict(r, cols)>>

InitGNG ==
    /\ data = <<>>
    /\ summary = <<>>
    /\ rt_runs = 0
    /\ built = "none"
    /\ load = NoLoad
    /\ err = "none"
    /\ \E a \in BOOLEAN : params = [DefaultParams EXCEPT !.lick_times_are_absolute = a]
    /\ (InitGngRich \/ InitGngTable \/ InitGngMissing)

NextGNG == AddGngOutcomes

SpecGNG == InitGNG /\ [][NextGNG]_vars

----------------------------------------------------------------------------
(* Properties of add_gng_outcomes, stated on the table it returned *)

GngDone == err = "none" /\ "Outcome_GNG" \in cols

Rows == {df[i] : i \in 1..Len(df)}

SpecialOrig(r) == r.TrOutcome \in {Num(5), Num(6)}

StrengthPos(r) == r.SE_strength # NaN /\ Val(r.SE_strength).n > 0

StrengthZero(r) == r.SE_strength = Num(Rat(0, 1))

WindowFinite(r) == r.RW_lo_ms # NaN /\ r.RW_hi_ms # NaN

RECURSIVE SumNat(_)
SumNat(s) == IF s = <<>> THEN 0 ELSE Head(s) + SumNat(Tail(s))

RECURSIVE SumRat(_)
SumRat(s) == IF s = <<>> THEN Rat(0, 1) ELSE RatAdd(Head(s), SumRat(Tail(s)))

\* C1: a trial that is not AutoReward/PrematureLick, has a finite response
\* window and a strength that is 0 or > 0 is labelled by (stim-present,
\* LickInRW): Hit 1, Miss 2, FalseAlarm 3, CorrectRejection 4.
C1_LabelByStimAndLick ==
    GngDone =>
        \A r \in Rows :
            (~SpecialOrig(r) /\ WindowFinite(r) /\ (StrengthPos(r) \/ StrengthZero(r))) =>
                /\ (StrengthPos(r) /\ r.LickInRW) =>
                       (r.Outcome_GNG = "Hit" /\ r.Outcome_GNG_Code = Num(1))
                /\ (StrengthPos(r) /\ ~r.LickInRW) =>
                       (r.Outcome_GNG = "Miss" /\ r.Outcome_GNG_Code = Num(2))
                /\ (StrengthZero(r) /\ r.LickInRW) =>
                       (r.Outcome_GNG = "FalseAlarm" /\ r.Outcome_GNG_Code = Num(3))
                /\ (StrengthZero(r) /\ ~r.LickInRW) =>
                       (r.Outcome_GNG = "CorrectRejection" /\ r.Outcome_GNG_Code = Num(4))

C1_Witness ==
    /\ GngDone
    /\ \E r1, r2 \in Rows :
          /\ ~SpecialOrig(r1) /\ StrengthPos(r1) /\ r1.LickInRW /\ r1.Outcome_GNG = "Hit"
          /\ ~SpecialOrig(r2) /\ StrengthZero(r2) /\ ~r2.LickInRW /\ WindowFinite(r2)
          /\ r2.Outcome_GNG = "CorrectRejection"

\* C2: original code 5 is always labelled AutoReward (5) and original code 6
\* PrematureLick (6), whatever the window, the strength and the licks.
C2_SpecialCodesFirst ==
    GngDone =>
        \A r \in Rows :
            /\ r.TrOutcome = Num(5) =>
                   (r.Outcome_GNG = "AutoReward" /\ r.Outcome_GNG_Code = Num(5))
            /\ r.TrOutcome = Num(6) =>
                   (r.Outcome_GNG = "PrematureLick" /\ r.Outcome_GNG_Code = Num(6))

C2_Witness ==
    /\ GngDone
    /\ \E r \in Rows :
          /\ r.TrOutcome = Num(5) /\ WindowFinite(r) /\ StrengthPos(r) /\ r.LickInRW
          /\ r.Outcome_GNG = "AutoReward"

\* the trials C3 is about: not special, and the window cannot be formed (the
\* trial start or a bound is not finite) or the strength is neither 0 nor > 0
C3_Unlabelable(r) ==
    /\ ~SpecialOrig(r)
    /\ \/ r.TrStartTime = NaN \/ r.RWStartTime = NaN \/ r.RWEndTime = NaN
       \/ ~(StrengthPos(r) \/ StrengthZero(r))

\* C3: such a trial has a null label and a null code, and the summary neither
\* counts it nor has it in its denominator.
C3_NoLabelExcluded ==
    GngDone =>
        LET n == Cardinality({i \in 1..Len(df) : ~C3_Unlabelable(df[i])})
            s == summary[1]
        IN  /\ \A r \in Rows :
                   C3_Unlabelable(r) => (r.Outcome_GNG = "None" /\ r.Outcome_GNG_Code = NaN)
            /\ SumNat(s.count) <= n
            /\ \A k \in 1..6 : s.proportion[k] = Rat(s.count[k], Max2(n, 1))

C3_Witness ==
    /\ GngDone
    /\ \E i, j \in 1..Len(df) :
          /\ C3_Unlabelable(df[i]) /\ df[i].SE_strength = NaN /\ WindowFinite(df[i])
          /\ df[i].LickTimes # <<>>
          /\ df[j].Outcome_GNG = "Hit"
    /\ summary[1].count[1] = 1

\* the six assignment masks of one row, in the order of the assignments
C4_Masks(r) ==
    LET orig == r.TrOutcome
        can  == CanLabel(r, orig, r.RW_lo_ms, r.RW_hi_ms)
    IN  <<can /\ StimTrial(r) /\ r.LickInRW,
          can /\ StimTrial(r) /\ ~r.LickInRW,
          can /\ NoStimTrial(r) /\ r.LickInRW,
          can /\ NoStimTrial(r) /\ ~r.LickInRW,
          IsAutoReward(orig),
          IsPremature(orig)>>

\* C4: the code is null or one of 1..6, at most one of the six labels applies
\* to a trial, and the code is the fixed image of the label (Hit 1, Miss 2,
\* FalseAlarm 3, CorrectRejection 4, AutoReward 5, PrematureLick 6, null null).
C4_OneLabelFixedCode ==
    GngDone =>
        \A r \in Rows :
            LET m   == C4_Masks(r)
                set == {k \in 1..6 : m[k]}
            IN  /\ r.Outcome_GNG_Code \in {NaN} \cup {Num(k) : k \in 1..6}
                /\ Cardinality(set) <= 1
                /\ \A k \in set : r.Outcome_GNG_Code = Num(k)
                /\ set = {} => r.Outcome_GNG = "None"
                /\ r.Outcome_GNG = "Hit" <=> r.Outcome_GNG_Code = Num(1)
                /\ r.Outcome_GNG = "Miss" <=> r.Outcome_GNG_Code = Num(2)
                /\ r.Outcome_GNG = "FalseAlarm" <=> r.Outcome_GNG_Code = Num(3)
                /\ r.Outcome_GNG = "CorrectRejection" <=> r.Outcome_GNG_Code = Num(4)
                /\ r.Outcome_GNG = "AutoReward" <=> r.Outcome_GNG_Code = Num(5)
                /\ r.Outcome_GNG = "PrematureLick" <=> r.Outcome_GNG_Code = Num(6)
                /\ r.Outcome_GNG = "None" <=> r.Outcome_GNG_Code = NaN

C4_Witness ==
    /\ GngDone
    /\ \E r1, r2 \in Rows :
          /\ r1.Outcome_GNG = "FalseAlarm" /\ r1.Outcome_GNG_Code = Num(3)
          /\ r2.Outcome_GNG = "None" /\ r2.Outcome_GNG_Code = NaN

\* the evaluable trials: special codes always, the others when the window is
\* finite and the strength is 0 or > 0
C5_Evaluable(r) ==
    SpecialOrig(r) \/ (WindowFinite(r) /\ (StrengthPos(r) \/ StrengthZero(r)))

C5_NEvaluable == Cardinality({i \in 1..Len(df) : C5_Evaluable(df[i])})

C5_FixedOrder ==
    summary[1].index =
        <<"Hit", "Miss", "FalseAlarm", "CorrectRejection", "AutoReward", "PrematureLick">>

\* C5 as claimed: for every input table the summary has the six labels in the
\* fixed order, and its proportions sum to 1.0, the six counts adding up to
\* the number of evaluable trials used as the denominator.
C5_Original ==
    GngDone =>
        /\ C5_FixedOrder
        /\ DOMAIN summary[1].count = 1..6
        /\ SumNat(summary[1].count) = C5_NEvaluable
        /\ SumRat(summary[1].proportion) = Rat(1, 1)

\* C5 amended: the six labels in the fixed order, absent ones 0; the counts add
\* up to the number of evaluable trials; each proportion is its count over
\* max(that number, 1), so the proportions sum to 1.0 when at least one trial
\* is evaluable and are all 0 when none is.
C5_Amended ==
    GngDone =>
        LET s == summary[1]
        IN  /\ C5_FixedOrder
            /\ DOMAIN s.count = 1..6 /\ DOMAIN s.proportion = 1..6
            /\ \A k \in 1..6 :
                   s.count[k] = Cardinality({i \in 1..Len(df) : df[i].Outcome_GNG = s.index[k]})
            /\ SumNat(s.count) = C5_NEvaluable
            /\ \A k \in 1..6 : s.proportion[k] = Rat(s.count[k], Max2(C5_NEvaluable, 1))
            /\ C5_NEvaluable >= 1 => SumRat(s.proportion) = Rat(1, 1)
            /\ C5_NEvaluable = 0 => \A k \in 1..6 : s.proportion[k] = Rat(0, 1)

C5_Witness ==
    /\ GngDone
    /\ Len(df) = 2
    /\ C5_NEvaluable = 1
    /\ summary[1].count[5] = 1
    /\ summary[1].proportion[5] = Rat(1, 1)

\* the validated trial-relative time of a raw lick value, NaN if the value is
\* rejected (not finite, not positive, at or above the absolute ceiling, no
\* finite trial start to align against, or outside [0, max_trial_ms])
C6_RelLick(r, raw) ==
    LET rel == IF params.lick_times_are_absolute THEN Sub(raw, r.TrStartTime) ELSE raw
    IN  IF /\ raw # NaN /\ Val(raw) > 0 /\ Val(raw) < 1100000000
           /\ rel # NaN /\ Val(rel) >= 0 /\ Val(rel) <= 20000
        THEN rel ELSE NaN

C6_ValidLicks(r) ==
    {C6_RelLick(r, r.LickTimes[k]) : k \in 1..Len(r.LickTimes)} \ {NaN}

\* C6: LickInRW is true exactly when some validated trial-relative lick of the
\* full list lies in [RW_lo_ms, RW_hi_ms], both bounds inclusive; with window
\* [200, 800], licks [50, 900] and a stimulus present LickInRW is false and
\* the trial is a Miss.
C6_LickInWindow ==
    GngDone =>
        \A r \in Rows :
            /\ r.LickInRW <=>
                   /\ WindowFinite(r)
                   /\ \E t \in C6_ValidLicks(r) :
                          Val(r.RW_lo_ms) <= Val(t) /\ Val(t) <= Val(r.RW_hi_ms)
            /\ ( /\ r.RW_lo_ms = Num(200) /\ r.RW_hi_ms = Num(800)
                 /\ C6_ValidLicks(r) = {Num(50), Num(900)}
                 /\ StrengthPos(r) /\ ~SpecialOrig(r) )
               => (~r.LickInRW /\ r.Outcome_GNG = "Miss")

C6_Witness ==
    /\ GngDone
    /\ \E r \in Rows :
          /\ r.RW_lo_ms = Num(200) /\ r.RW_hi_ms = Num(800)
          /\ C6_ValidLicks(r) = {Num(50), Num(900)}
          /\ StrengthPos(r) /\ r.Outcome_GNG = "Miss"

----------------------------------------------------------------------------
(* add_reaction_time_columns (GoNoGO_ExtractRTndOutcome.py) *)

RtRequired == {"SE_Time_ms", "TrStartTime", "LickTimes"}

\* first_stim[i]: the minimum of the finite onsets within [0, max_trial_ms]
FirstStim(row) ==
    LET L   == row.SE_Time_ms
        fin == SelectSeq(L, IsFinite)
        arr == SelectSeq(fin, LAMBDA x : Val(x) >= 0 /\ Val(x) <= max_trial_ms)
    IN  IF Len(L) = 0 THEN NaN
        ELSE IF Len(arr) = 0 THEN NaN
        ELSE NpMin(arr)

\* rel: the validated trial-relative licks of one pass of the lick loop, <<>>
\* where the pass ends in `continue`
RtRel(row, absolute) ==
    LET L    == row.LickTimes
        t0   == row.TrStartTime
        fin  == SelectSeq(L, IsFinite)
        arr  == SelectSeq(fin, LAMBDA x : Val(x) > 0 /\ Val(x) < max_abs_lick)
        rel0 == IF absolute THEN [k \in 1..Len(arr) |-> Sub(arr[k], t0)] ELSE arr
    IN  IF Len(L) = 0 THEN <<>>
        ELSE IF Len(arr) = 0 THEN <<>>
        ELSE IF absolute /\ ~IsFinite(t0) THEN <<>>
        ELSE SelectSeq(rel0, LAMBDA x :
                 IsFinite(x) /\ Val(x) >= 0 /\ Val(x) <= max_trial_ms)

\* mutant of TooEarly: a lick exactly cutoff ms before the stimulus is kept
TooEarly_Strict(t, cutoff_time) == Val(t) < cutoff_time

\* too_early = (rel_valid <= cutoff_time)
TooEarly(t, cutoff_time) == Val(t) <= cutoff_time

FilterOn(stim, cutoff) == IsFinite(stim) /\ cutoff # NaN /\ Val(cutoff) > 0

\* mutant of RtRelValid: no lick is removed
RtRelValid_Unfiltered(rel, stim, cutoff) == rel

\* rel_valid: the licks left by the early-lick filter
RtRelValid(rel, stim, cutoff) ==
    IF FilterOn(stim, cutoff)
    THEN SelectSeq(rel, LAMBDA t : ~TooEarly(t, Val(stim) - Val(cutoff)))
    ELSE rel

RtEarlyRemoved(rel, stim, cutoff) ==
    /\ Len(rel) > 0
    /\ FilterOn(stim, cutoff)
    /\ \E k \in 1..Len(rel) : TooEarly(rel[k], Val(stim) - Val(cutoff))

\* mutant of RtMs: a lick before the stimulus gives no reaction time
RtMs_NonNegative(first_lick, first_stim) ==
    LET rt == Sub(first_lick, first_stim)
    IN  IF IsFinite(rt) /\ Val(rt) < 0 THEN NaN ELSE rt

\* rt = FirstLick_ms - FirstStim_ms, NaN where it is not finite
RtMs(first_lick, first_stim) == Sub(first_lick, first_stim)

\* mutant of RtRow: the lick list is replaced by its trial-relative values
RtRow_InPlace(row, absolute, cutoff) ==
    LET stim == FirstStim(row)
        rel  == RtRel(row, absolute)
        keep == RtRelValid(rel, stim, cutoff)
        lick == IF Len(keep) = 0 THEN NaN ELSE NpMin(keep)
    IN  Assign(row, [LickTimes |-> rel,
                     FirstStim_ms |-> stim,
                     FirstLickAny_ms |-> IF Len(rel) = 0 THEN NaN ELSE NpMin(rel),
                     EarlyLicksRemoved |-> RtEarlyRemoved(rel, stim, cutoff),
                     FirstLick_ms |-> lick,
                     RT_ms |-> RtMs(lick, stim)])

RtRow(row, absolute, cutoff) ==
    LET stim == FirstStim(row)
        rel  == RtRel(row, absolute)
        keep == RtRelValid(rel, stim, cutoff)
        lick == IF Len(keep) = 0 THEN NaN ELSE NpMin(keep)
    IN  Assign(row, [FirstStim_ms |-> stim,
                     FirstLickAny_ms |-> IF Len(rel) = 0 THEN NaN ELSE NpMin(rel),
                     EarlyLicksRemoved |-> RtEarlyRemoved(rel, stim, cutoff),
                     FirstLick_ms |-> lick,
                     RT_ms |-> RtMs(lick, stim)])

RtNewCols == {"FirstStim_ms", "FirstLickAny_ms", "EarlyLicksRemoved", "FirstLick_ms", "RT_ms"}

\* The title of the histogram formats int(early_lick_cutoff_ms): with plot
\* set and the cutoff None the call ends in a TypeError after the columns
\* were computed, and returns nothing.
AddReactionTimeColumns ==
    /\ err = "none"
    /\ rt_runs < MaxRuns
    /\ IF ~(RtRequired \subseteq cols)
       THEN /\ err' = "KeyError"
            /\ UNCHANGED <<df, cols, rt_runs>>
       ELSE IF params.plot /\ params.early_lick_cutoff_ms = NaN
       THEN /\ err' = "TypeError"
            /\ UNCHANGED <<df, cols, rt_runs>>
       ELSE /\ df' = [i \in 1..Len(df) |->
                        RtRow(df[i], params.lick_times_are_absolute,
                              params.early_lick_cutoff_ms)]
            /\ cols' = cols \cup RtNewCols
            /\ rt_runs' = rt_runs + 1
            /\ err' = err
    /\ UNCHANGED <<data, summary, params, built, load>>

----------------------------------------------------------------------------
(* Trial tables handed to add_reaction_time_columns *)

RtInputCols == {"Trial", "SE_Time_ms", "TrStartTime", "LickTimes"}

RtStimVals == {NaN, Num(-5), Num(10), Num(30)}

RtLickVals == {NaN, Num(0), Num(5), Num(6), Num(25)}

\* (lick_times_are_absolute, TrStartTime)
RtAlignments == {<<TRUE, NaN>>, <<TRUE, Num(1)>>, <<FALSE, Num(1)>>}

\* (early_lick_cutoff_ms, plot): None, 0, a negative and two positive cutoffs
RtCutoffs ==
    {<<NaN, TRUE>>, <<NaN, FALSE>>, <<Num(0), TRUE>>, <<Num(-5), TRUE>>, <<Num(5), TRUE>>,
     <<Num(500), TRUE>>}

RtPlainRows ==
    [Trial : {1}, SE_Time_ms : {<<>>, <<Num(10)>>}, TrStartTime : {Num(1)},
     LickTimes : {<<>>, <<Num(6)>>, <<Num(25), Num(7)>>}]

\* Scenario 1 of the specification: stimuli [10, 20, 30], trial-relative
\* licks [5, 25]
Scenario1Row ==
    [Trial |-> 1, SE_Time_ms |-> <<Num(10), Num(20), Num(30)>>, TrStartTime |-> Num(1),
     LickTimes |-> <<Num(5), Num(25)>>]

\* one trial with every input of the derivation varied
InitRtRich ==
    \E al \in RtAlignments, cp \in RtCutoffs, n \in 0..MaxStim, m \in 0..MaxLicks :
       \E S \in [1..n -> RtStimVals], L \in [1..m -> RtLickVals] :
          /\ cols = RtInputCols
          /\ params = [lick_times_are_absolute |-> al[1],
                       early_lick_cutoff_ms |-> cp[1], plot |-> cp[2]]
          /\ df = <<[Trial |-> 1, SE_Time_ms |-> S, TrStartTime |-> al[2], LickTimes |-> L]>>

InitRtScenario ==
    /\ cols = RtInputCols
    /\ params = [DefaultParams EXCEPT !.lick_times_are_absolute = FALSE]
    /\ df = <<Scenario1Row>>

InitRtTable ==
    /\ cols = RtInputCols
    /\ \E c \in {Num(5), Num(500)} :
          params = [DefaultParams EXCEPT !.early_lick_cutoff_ms = c]
    /\ \E n \in 1..MaxTrials : \E t \in [1..n -> RtPlainRows] : df = Renumber(t)

InitRtMissing ==
    /\ params = DefaultParams
    /\ \E c \in RtRequired :
          /\ cols = RtInputCols \ {c}
          /\ \E r \in RtPlainRows : df = <<Restrict(r, cols)>>

InitRT ==
    /\ data = <<>>
    /\ summary = <<>>
    /\ rt_runs = 0
    /\ built = "none"
    /\ load = NoLoad
    /\ err = "none"
    /\ (InitRtRich \/ InitRtScenario \/ InitRtTable \/ InitRtMissing)

NextRT == AddReactionTimeColumns

SpecRT == InitRT /\ [][NextRT]_vars

----------------------------------------------------------------------------
(* Properties of add_reaction_time_columns, stated on the table it returned *)

RtDone == err = "none" /\ rt_runs >= 1

SetMin(S) == CHOOSE m \in S : \A x \in S : m <= x

\* the valid stimulus onsets of a trial: finite and within [0, max_trial_ms]
ValidOnsets(r) ==
    {Val(r.SE_Time_ms[k]) : k \in {j \in 1..Len(r.SE_Time_ms) :
        /\ r.SE_Time_ms[j] # NaN
        /\ Val(r.SE_Time_ms[j]) >= 0 /\ Val(r.SE_Time_ms[j]) <= 20000}}

ValidLickTimes(r) == {Val(t) : t \in C6_ValidLicks(r)}

CutoffPositive == params.early_lick_cutoff_ms # NaN /\ Val(params.early_lick_cutoff_ms) > 0

\* the licks the early-lick filter leaves: all of them when the filter is off
Surviving(r) ==
    IF ValidOnsets(r) # {} /\ CutoffPositive
    THEN {t \in ValidLickTimes(r) :
              t > SetMin(ValidOnsets(r)) - Val(params.early_lick_cutoff_ms)}
    ELSE ValidLickTimes(r)

\* C7: FirstStim_ms is the minimum valid onset, FirstLick_ms the minimum lick
\* surviving the early-lick filter, RT_ms their difference when both are
\* defined (a negative one is kept) and null when either is null; stimuli
\* [10, 20, 30], licks [5, 25], cutoff 500 give FirstLick_ms 5 and RT_ms -5.
C7_ReactionTime ==
    RtDone =>
        \A r \in Rows :
            /\ r.FirstStim_ms =
                   IF ValidOnsets(r) = {} THEN NaN ELSE Num(SetMin(ValidOnsets(r)))
            /\ r.FirstLick_ms =
                   IF Surviving(r) = {} THEN NaN ELSE Num(SetMin(Surviving(r)))
            /\ (r.FirstStim_ms # NaN /\ r.FirstLick_ms # NaN) =>
                   r.RT_ms = Num(Val(r.FirstLick_ms) - Val(r.FirstStim_ms))
            /\ (r.FirstStim_ms = NaN \/ r.FirstLick_ms = NaN) => r.RT_ms = NaN
            /\ ( /\ r.SE_Time_ms = <<Num(10), Num(20), Num(30)>>
                 /\ ValidLickTimes(r) = {5, 25}
                 /\ params.early_lick_cutoff_ms = Num(500) )
               => (r.FirstLick_ms = Num(5) /\ r.RT_ms = Num(-5))

C7_Witness ==
    /\ RtDone
    /\ \E r \in Rows :
          /\ r.SE_Time_ms = <<Num(10), Num(20), Num(30)>>
          /\ ValidLickTimes(r) = {5, 25}
          /\ params.early_lick_cutoff_ms = Num(500)
          /\ r.RT_ms = Num(-5)

\* C8: with a positive cutoff and a defined FirstStim_ms, a validated lick t
\* is discarded iff t <= FirstStim_ms - cutoff: EarlyLicksRemoved tells
\* whether there is such a lick, a lick exactly at FirstStim_ms - cutoff is
\* never FirstLick_ms, and a lick at FirstStim_ms - cutoff + 1 is retained,
\* which makes it FirstLick_ms.
C8_EarlyLickBoundary ==
    RtDone =>
        \A r \in Rows :
            (CutoffPositive /\ r.FirstStim_ms # NaN) =>
                LET edge == Val(r.FirstStim_ms) - Val(params.early_lick_cutoff_ms)
                    V    == ValidLickTimes(r)
                IN  /\ r.EarlyLicksRemoved <=> \E t \in V : t <= edge
                    /\ r.FirstLick_ms # NaN => Val(r.FirstLick_ms) > edge
                    /\ r.FirstLick_ms # NaN => Val(r.FirstLick_ms) \in V
                    /\ \A t \in V : t > edge =>
                           (r.FirstLick_ms # NaN /\ Val(r.FirstLick_ms) <= t)
                    /\ edge \in V => (r.EarlyLicksRemoved /\ r.FirstLick_ms # Num(edge))
                    /\ (edge + 1) \in V => r.FirstLick_ms = Num(edge + 1)

C8_Witness ==
    /\ RtDone
    /\ \E r \in Rows :
          LET edge == Val(r.FirstStim_ms) - Val(params.early_lick_cutoff_ms)
          IN  /\ CutoffPositive /\ r.FirstStim_ms # NaN
              /\ edge \in ValidLickTimes(r)
              /\ (edge + 1) \in ValidLickTimes(r)
              /\ r.EarlyLicksRemoved
              /\ r.FirstLick_ms = Num(edge + 1)

\* C9: a second run of add_reaction_time_columns on its own output, with the
\* same parameters, leaves RT_ms, FirstStim_ms, FirstLickAny_ms, FirstLick_ms
\* and EarlyLicksRemoved of every trial as the first run made them.
C9_RerunSameColumns ==
    [][ (rt_runs >= 1 /\ rt_runs' = rt_runs + 1) =>
            /\ Len(df') = Len(df)
            /\ \A i \in 1..Len(df) : \A c \in RtNewCols : df'[i][c] = df[i][c] ]_vars

C9_Witness ==
    /\ err = "none"
    /\ rt_runs = 2
    /\ \E r \in Rows : r.RT_ms # NaN /\ r.EarlyLicksRemoved /\ r.FirstLickAny_ms # r.FirstLick_ms


\* the validated licks the early-lick filter discarded
Discarded(r) == ValidLickTimes(r) \ Surviving(r)

\* the early-lick filter is skipped for the row
FilterSkipped(r) == r.FirstStim_ms = NaN \/ ~CutoffPositive

\* in the table add_reaction_time_columns returned, EarlyLicksRemoved tells
\* whether a validated lick was discarded, and a row for which the filter is
\* skipped has none discarded, EarlyLicksRemoved false and FirstLick_ms =
\* FirstLickAny_ms
C25_EarlyRemovedOnReturn ==
    RtDone =>
        \A r \in Rows :
            /\ r.EarlyLicksRemoved <=> Discarded(r) # {}
            /\ FilterSkipped(r) =>
                  /\ Discarded(r) = {}
                  /\ ~r.EarlyLicksRemoved
                  /\ r.FirstLick_ms = r.FirstLickAny_ms

\* a call on a table with the required columns gives the columns whatever
\* the cutoff: None, zero, negative or positive
C25_EveryCutoffReturns == RtRequired \subseteq cols => err = "none"

\* C25: add_reaction_time_columns gives EarlyLicksRemoved true exactly for
\* the trials with a validated lick discarded by the early-lick filter; with
\* FirstStim_ms null or the cutoff None, zero or negative the filter is
\* skipped, and the call gives EarlyLicksRemoved false and FirstLick_ms =
\* FirstLickAny_ms.
C25_EarlyLicksRemoved == C25_EarlyRemovedOnReturn /\ C25_EveryCutoffReturns

\* a call with cutoff None and the default plot = True ended in TypeError
C25_NoneCutoffRaises ==
    /\ err = "TypeError" /\ params.early_lick_cutoff_ms = NaN /\ params.plot
    /\ RtRequired \subseteq cols

\* calls that returned: cutoff None without plot, and a negative cutoff,
\* with a lick long before the first stimulus kept
C25_SkippedReached ==
    /\ RtDone
    /\ params.early_lick_cutoff_ms \in {NaN, Num(-5)}
    /\ \E r \in Rows :
          /\ r.FirstStim_ms # NaN /\ r.FirstLick_ms # NaN
          /\ Val(r.FirstLick_ms) < Val(r.FirstStim_ms)
          /\ ~r.EarlyLicksRemoved

\* C28: in the table add_reaction_time_columns returned for a positive
\* cutoff, a non-null RT_ms is strictly greater than -cutoff; and for any
\* cutoff FirstLickAny_ms <= FirstLick_ms when both are defined.
C28_RtAboveMinusCutoff ==
    RtDone =>
        \A r \in Rows :
            /\ (CutoffPositive /\ r.RT_ms # NaN) =>
                  Val(r.RT_ms) > -Val(params.early_lick_cutoff_ms)
            /\ (r.FirstLickAny_ms # NaN /\ r.FirstLick_ms # NaN) =>
                  Val(r.FirstLickAny_ms) <= Val(r.FirstLick_ms)

\* an early lick was removed and the first lick left is 1 ms inside the
\* cutoff
C28_Witness ==
    /\ RtDone /\ CutoffPositive
    /\ \E r \in Rows :
          /\ r.EarlyLicksRemoved
          /\ r.RT_ms = Num(1 - Val(params.early_lick_cutoff_ms))
          /\ Val(r.FirstLickAny_ms) < Val(r.FirstLick_ms)
----------------------------------------------------------------------------
(* build_trial_data (build_trial_table.py and build_trial_table2.py)        *)
(*                                                                          *)
(* A session bundle is [base, trials, stimuli, lick, header]; each table is *)
(* [present, cols, rows], present = FALSE standing for None.  Cells hold    *)
(* what pd.to_numeric(errors="coerce") makes of them: a number or NaN.      *)

NoTable == [present |-> FALSE, cols |-> {}, rows |-> <<>>]

RatDiv(p, k) == Rat(p.n, p.d * k)

\* the order of the session names under sort_values
BaseRank(base) == CASE base = "s1" -> 1 [] base = "s2" -> 2

\* mutant of CanonicalTrials: the lick table's trial numbers are preferred to
\* the Trial column of the trials table
CanonicalTrials_LickFirst(b) ==
    LET tr == b.trials
        n  == Len(tr.rows)
    IN  IF b.lick.present /\ "Trial" \in b.lick.cols /\ Len(b.lick.rows) = n
        THEN <<TRUE, [i \in 1..n |-> Assign(tr.rows[i], [Trial |-> b.lick.rows[i].Trial])]>>
        ELSE IF "Trial" \in tr.cols
        THEN <<TRUE, tr.rows>>
        ELSE IF "TrialInSession" \in tr.cols
        THEN <<TRUE, [i \in 1..n |-> Assign(tr.rows[i], [Trial |-> tr.rows[i].TrialInSession])]>>
        ELSE <<FALSE, <<>>>>

\* The canonical trial numbers of the backbone: its own Trial column, else
\* the lick table's taken by position, else TrialInSession.  <<FALSE, _>>
\* when neither column is there: .astype("Int64") is then called on the
\* scalar that to_numeric(None) returns, which raises.
CanonicalTrials(b) ==
    LET tr == b.trials
        n  == Len(tr.rows)
    IN  IF "Trial" \in tr.cols
        THEN <<TRUE, tr.rows>>
        ELSE IF b.lick.present /\ "Trial" \in b.lick.cols /\ Len(b.lick.rows) = n
        THEN <<TRUE, [i \in 1..n |-> Assign(tr.rows[i], [Trial |-> b.lick.rows[i].Trial])]>>
        ELSE IF "TrialInSession" \in tr.cols
        THEN <<TRUE, [i \in 1..n |-> Assign(tr.rows[i], [Trial |-> tr.rows[i].TrialInSession])]>>
        ELSE <<FALSE, <<>>>>

\* lick_trial: the lick rows' trial numbers, -1 for one that is not a number
LickTrial(lick, i) ==
    IF IsFinite(lick.rows[i].Trial) THEN Val(lick.rows[i].Trial) ELSE -1

HasLickMaps(lick) == lick.present /\ "Trial" \in lick.cols

LickKeys(lick) ==
    IF HasLickMaps(lick) THEN {LickTrial(lick, i) : i \in 1..Len(lick.rows)} ELSE {}

\* a dict built from zip(...): the last row of a key is the one kept
LastRowOf(lick, t) ==
    CHOOSE i \in 1..Len(lick.rows) :
        /\ LickTrial(lick, i) = t
        /\ \A j \in 1..Len(lick.rows) : LickTrial(lick, j) = t => j <= i

LickTimeOf(lick, t) ==
    IF t \in LickKeys(lick)
    THEN IF "LickTimes" \in lick.cols THEN lick.rows[LastRowOf(lick, t)].LickTimes ELSE <<>>
    ELSE <<>>

LickSideOf(lick, t) ==
    IF t \in LickKeys(lick)
    THEN IF "LickSides" \in lick.cols THEN lick.rows[LastRowOf(lick, t)].LickSides ELSE <<>>
    ELSE <<>>

\* mutant of NLicksOf: 0 for a trial that nlick_map does not have
NLicksOf_DefaultZero(lick, t) ==
    IF t \in LickKeys(lick) /\ "NLicks" \in lick.cols
    THEN LET nl == lick.rows[LastRowOf(lick, t)].NLicks
         IN  IF IsFinite(nl) THEN Val(nl) ELSE 0
    ELSE 0

\* nlick_map.get(t_int, len(row["LickTimes"]))
NLicksOf(lick, t) ==
    IF t \in LickKeys(lick) /\ "NLicks" \in lick.cols
    THEN LET nl == lick.rows[LastRowOf(lick, t)].NLicks
         IN  IF IsFinite(nl) THEN Val(nl) ELSE 0
    ELSE Len(LickTimeOf(lick, t))

HasStimMaps(stim) == stim.present /\ "Trial" \in stim.cols /\ Len(stim.rows) > 0

IsNoise(ev) == ev.StimElem = Num(10)

\* groupby("Trial"): the rows of trial t, in the order of the table
EventsOf(rows, t) == SelectSeq(rows, LAMBDA ev : ev.Trial = Num(t))

\* _map_list(colname).get(t_int, [])
ListOf(stim, rows, col, t) ==
    IF HasStimMaps(stim) /\ col \in stim.cols
    THEN LET g == EventsOf(rows, t) IN [k \in 1..Len(g) |-> g[k][col]]
    ELSE <<>>

RECURSIVE SumAmpl(_)
SumAmpl(g) ==
    IF g = <<>> THEN Rat(0, 1) ELSE RatAdd(Val(Head(g).Ampl), SumAmpl(Tail(g)))

\* g["_AmplNum"].mean(skipna=True): NaN when no amplitude is a number
MeanAmpl(g) ==
    LET num == SelectSeq(g, LAMBDA ev : IsFinite(ev.Ampl))
    IN  IF Len(num) = 0 THEN NaN ELSE Num(RatDiv(SumAmpl(num), Len(num)))

\* len(g) * mean
CountTimesMean(g) ==
    LET m == MeanAmpl(g)
    IN  IF IsFinite(m) THEN Num(RatMul(Rat(Len(g), 1), Val(m))) ELSE NaN

\* build_trial_table.py: the lists and the strength are over all the events
\* of the trial, the noise event among them
StimRows(stim) == stim.rows

Strength(stim, t) ==
    LET g == EventsOf(StimRows(stim), t)
    IN  IF HasStimMaps(stim) /\ "Ampl" \in stim.cols /\ Len(g) > 0
        THEN CountTimesMean(g)
        ELSE NaN

\* mutant of Noise: the amplitude of the first noise event, number or not
Noise_FirstEvent(stim, t) ==
    LET g == SelectSeq(EventsOf(stim.rows, t), IsNoise)
    IN  IF HasStimMaps(stim) /\ {"StimElem", "Ampl"} \subseteq stim.cols /\ Len(g) > 0
        THEN g[1].Ampl
        ELSE NaN

\* the first amplitude that is a number among the noise events of the trial
Noise(stim, t) ==
    LET g   == SelectSeq(EventsOf(stim.rows, t), IsNoise)
        num == SelectSeq(g, LAMBDA ev : IsFinite(ev.Ampl))
    IN  IF HasStimMaps(stim) /\ {"StimElem", "Ampl"} \subseteq stim.cols /\ Len(num) > 0
        THEN num[1].Ampl
        ELSE NaN

\* build_trial_table2.py: stim2 = stim2.loc[stim2["StimElem"] != 10]
StimRows2(stim) ==
    IF "StimElem" \in stim.cols
    THEN SelectSeq(stim.rows, LAMBDA ev : ~IsNoise(ev))
    ELSE stim.rows

\* (count * mean).fillna(0.0), and strength_map.get(t_int, 0.0)
Strength2(stim, t) ==
    LET g == EventsOf(StimRows2(stim), t)
        v == CountTimesMean(g)
    IN  IF HasStimMaps(stim) /\ "Ampl" \in stim.cols /\ Len(g) > 0 /\ IsFinite(v)
        THEN v
        ELSE Num(Rat(0, 1))

\* build_trial_table2.py sorts the noise rows by Trial with the default
\* (unstable) sort before it keeps the first of each trial: any numeric
\* amplitude of the trial's noise events can come first
NoiseChoices2(stim, t) ==
    LET g   == SelectSeq(EventsOf(stim.rows, t), IsNoise)
        num == SelectSeq(g, LAMBDA ev : IsFinite(ev.Ampl))
    IN  IF HasStimMaps(stim) /\ {"StimElem", "Ampl"} \subseteq stim.cols /\ Len(num) > 0
        THEN {num[k].Ampl : k \in 1..Len(num)}
        ELSE {NaN}

\* header.iloc[0].to_dict(), None without a header row
HeaderDict(header) ==
    IF header.present /\ Len(header.rows) > 0 THEN <<header.rows[1]>> ELSE <<>>

\* mutant of Backbone: only the trials that have a lick row (an inner join)
Backbone_Matched(b) ==
    IF ~b.trials.present \/ Len(b.trials.rows) = 0
    THEN <<>>
    ELSE SelectSeq(CanonicalTrials(b)[2],
                   LAMBDA tr : IsFinite(tr.Trial) /\ Val(tr.Trial) \in LickKeys(b.lick))

\* the backbone rows that get an output row: those with a trial number
Backbone(b) ==
    IF ~b.trials.present \/ Len(b.trials.rows) = 0
    THEN <<>>
    ELSE SelectSeq(CanonicalTrials(b)[2], LAMBDA tr : IsFinite(tr.Trial))

\* mutant of JoinLick: the header bundle is put on trial 1 alone
JoinLick_HeaderOnFirst(b, tr) ==
    LET t == Val(tr.Trial)
    IN  [SessionBase |-> b.base,
         LickTimes |-> LickTimeOf(b.lick, t),
         LickSides |-> LickSideOf(b.lick, t),
         NLicks |-> NLicksOf(b.lick, t),
         Header |-> IF t = 1 THEN HeaderDict(b.header) ELSE <<>>]

JoinLick(b, tr) ==
    LET t == Val(tr.Trial)
    IN  [SessionBase |-> b.base,
         LickTimes |-> LickTimeOf(b.lick, t),
         LickSides |-> LickSideOf(b.lick, t),
         NLicks |-> NLicksOf(b.lick, t),
         Header |-> HeaderDict(b.header)]

\* one output row of build_trial_table.py
BuildRow(b, tr) ==
    LET t == Val(tr.Trial)
        rows == StimRows(b.stimuli)
    IN  Assign(tr, JoinLick(b, tr) @@
            [SE_Posn |-> ListOf(b.stimuli, rows, "Posn", t),
             SE_StimElem |-> ListOf(b.stimuli, rows, "StimElem", t),
             SE_Time_ms |-> ListOf(b.stimuli, rows, "Time_ms", t),
             SE_Ampl |-> ListOf(b.stimuli, rows, "Ampl", t),
             SE_noise |-> Noise(b.stimuli, t),
             SE_strength |-> Strength(b.stimuli, t)])

\* one output row of build_trial_table2.py, given the noise amplitude
BuildRow2(b, tr, noise) ==
    LET t == Val(tr.Trial)
        rows == StimRows2(b.stimuli)
    IN  Assign(tr, JoinLick(b, tr) @@
            [SE_Posn |-> ListOf(b.stimuli, rows, "Posn", t),
             SE_StimElem |-> ListOf(b.stimuli, rows, "StimElem", t),
             SE_Time_ms |-> ListOf(b.stimuli, rows, "Time_ms", t),
             SE_Ampl |-> ListOf(b.stimuli, rows, "Ampl", t),
             SE_noise |-> noise,
             SE_strength |-> Strength2(b.stimuli, t)])

BuiltCols ==
    {"SessionBase", "LickTimes", "LickSides", "NLicks", "Header", "SE_Posn", "SE_StimElem",
     "SE_Time_ms", "SE_Ampl", "SE_noise", "SE_strength"}

\* sort_values([SessionTime, SessionBase, Trial], kind="mergesort") over the
\* columns the table has; a NaN SessionTime sorts last
SortKeyLeq(c, a, b) ==
    LET fa == "SessionTime" \in c /\ IsFinite(a.SessionTime)
        fb == "SessionTime" \in c /\ IsFinite(b.SessionTime)
        tlt == fa /\ (~fb \/ Val(a.SessionTime) < Val(b.SessionTime))
        teq == IF fa /\ fb THEN a.SessionTime = b.SessionTime ELSE fa = fb
        ba == BaseRank(a.SessionBase)
        bb == BaseRank(b.SessionBase)
    IN  \/ tlt
        \/ teq /\ ba < bb
        \/ teq /\ ba = bb /\ Val(a.Trial) <= Val(b.Trial)

RECURSIVE InsertSorted(_, _, _)
InsertSorted(c, x, s) ==
    IF s = <<>> THEN <<x>>
    ELSE IF SortKeyLeq(c, Head(s), x) THEN <<Head(s)>> \o InsertSorted(c, x, Tail(s))
    ELSE <<x>> \o s

\* mutant of SortRows: the rows stay in the order of the loop
SortRows_Unsorted(c, s) == s

RECURSIVE SortRows(_, _)
SortRows(c, s) ==
    IF s = <<>> THEN <<>>
    ELSE InsertSorted(c, s[Len(s)], SortRows(c, SubSeq(s, 1, Len(s) - 1)))

\* mutant of Concat: the loop ends at the first session without a row
RECURSIVE Concat_StopAtEmpty(_)
Concat_StopAtEmpty(ss) ==
    IF ss = <<>> \/ Head(ss) = <<>> THEN <<>> ELSE Head(ss) \o Concat_StopAtEmpty(Tail(ss))

RECURSIVE Concat(_)
Concat(ss) == IF ss = <<>> THEN <<>> ELSE Head(ss) \o Concat(Tail(ss))

\* the columns of the row dicts: those of the backbones that give a row
TrialCols(d) ==
    UNION {IF Len(Backbone(d[k])) > 0 THEN d[k].trials.cols ELSE {} : k \in 1..Len(d)}

\* the columns of pd.DataFrame(rows): none when there is no row
TableCols(d, rows) ==
    IF rows = <<>> THEN {} ELSE TrialCols(d) \cup {"Trial"} \cup BuiltCols

\* the output rows build_trial_table.py appends for the sessions d
BuildRows(d) ==
    Concat([k \in 1..Len(d) |->
               LET bb == Backbone(d[k])
               IN  [i \in 1..Len(bb) |-> BuildRow(d[k], bb[i])]])

\* the table build_trial_table.py returns for the sessions d
BuildTable(d) == SortRows(TableCols(d, BuildRows(d)), BuildRows(d))

\* the noise amplitudes of the backbone rows bb, one choice a trial
RECURSIVE NoiseMaps2(_, _)
NoiseMaps2(stim, bb) ==
    IF bb = <<>> THEN {<<>>}
    ELSE {<<x>> \o r : x \in NoiseChoices2(stim, Val(Head(bb).Trial)),
                       r \in NoiseMaps2(stim, Tail(bb))}

\* the output rows build_trial_table2.py can append for the sessions d
RECURSIVE BuildRows2(_)
BuildRows2(d) ==
    IF d = <<>> THEN {<<>>}
    ELSE LET bb == Backbone(Head(d))
         IN  {[i \in 1..Len(bb) |-> BuildRow2(Head(d), bb[i], nm[i])] \o rest :
                 nm \in NoiseMaps2(Head(d).stimuli, bb), rest \in BuildRows2(Tail(d))}

\* the tables build_trial_table2.py can return for the sessions d
BuildTables2(d) == {SortRows(TableCols(d, rows), rows) : rows \in BuildRows2(d)}

BuildFails == \E k \in 1..Len(data) :
    /\ data[k].trials.present /\ Len(data[k].trials.rows) > 0
    /\ ~CanonicalTrials(data[k])[1]

BuildTrialData ==
    /\ err = "none"
    /\ built = "none"
    /\ IF BuildFails
       THEN /\ err' = "TypeError"
            /\ UNCHANGED <<df, cols, built>>
       ELSE /\ df' = BuildTable(data)
            /\ cols' = TableCols(data, df')
            /\ built' = "build_trial_table"
            /\ err' = err
    /\ UNCHANGED <<data, summary, params, rt_runs, load>>

BuildTrialData2 ==
    /\ err = "none"
    /\ built = "none"
    /\ IF BuildFails
       THEN /\ err' = "TypeError"
            /\ UNCHANGED <<df, cols, built>>
       ELSE \E t \in BuildTables2(data) :
               /\ df' = t
               /\ cols' = TableCols(data, t)
               /\ built' = "build_trial_table2"
               /\ err' = err
    /\ UNCHANGED <<data, summary, params, rt_runs, load>>

----------------------------------------------------------------------------
(* Inputs of build_trial_data *)

TrialsCols ==
    {"TrialInSession", "SessionTime", "TrStartTime", "RWStartTime", "RWEndTime", "TrOutcome",
     "StimNum"}

\* the rows load_trials gives: TrialInSession counts them from 1
TrialsRow(i, time) ==
    [TrialInSession |-> Num(i), SessionTime |-> time, TrStartTime |-> Num(100 * i),
     RWStartTime |-> Num(300), RWEndTime |-> Num(900), TrOutcome |-> Num(1),
     StimNum |-> IF i = MaxTrials THEN NaN ELSE Num(i)]

\* the backbone: with a Trial column (whose last cell may not be a number,
\* or whose cells may all hold the same number), without one, or without any
\* column that numbers the trials
TrialsTables(time) ==
    LET rows == [i \in 1..MaxTrials |-> TrialsRow(i, time)]
        withTrial(last) ==
            [i \in 1..MaxTrials |->
                Assign(rows[i], [Trial |-> IF i = MaxTrials THEN last ELSE Num(i)])]
    IN  {[present |-> TRUE, cols |-> TrialsCols \cup {"Trial"}, rows |-> withTrial(Num(MaxTrials))],
         [present |-> TRUE, cols |-> TrialsCols \cup {"Trial"}, rows |-> withTrial(NaN)],
         [present |-> TRUE, cols |-> TrialsCols \cup {"Trial"},
          rows |-> [i \in 1..MaxTrials |-> Assign(rows[i], [Trial |-> Num(1)])]],
         [present |-> TRUE, cols |-> TrialsCols, rows |-> rows],
         [present |-> TRUE, cols |-> TrialsCols \ {"TrialInSession"},
          rows |-> [i \in 1..MaxTrials |-> Restrict(rows[i], TrialsCols \ {"TrialInSession"})]]}

\* the lick rows load_lick gives, one a trial; the trial numbers run backwards
\* in the second table, so that taking them by position differs
LickTables ==
    LET row(t, n) == [Trial |-> Num(t), NLicks |-> Num(n),
                      LickTimes |-> [k \in 1..n |-> Num(150 * k)],
                      LickSides |-> [k \in 1..n |-> Num(1)]]
    IN  {NoTable,
         [present |-> TRUE, cols |-> {"Trial", "NLicks", "LickTimes", "LickSides"},
          rows |-> [i \in 1..MaxTrials |-> row(i, (i - 1) % (MaxLicks + 1))]],
         [present |-> TRUE, cols |-> {"Trial", "LickTimes", "LickSides"},
          rows |-> [i \in 1..MaxTrials |->
                       Restrict(row(MaxTrials + 1 - i, i % (MaxLicks + 1)),
                                {"Trial", "LickTimes", "LickSides"})]]}

StimCols == {"Trial", "Posn", "StimElem", "Time_ms", "Ampl"}

BuildAmpls == {NaN, Num(Rat(1, 2)), Num(Rat(2, 1))}

BuildElems == {Num(3), Num(10)}

StimTable(rows) == [present |-> TRUE, cols |-> StimCols, rows |-> rows]

\* Scenario 3 of the specification: a noise event and two genuine events
Scenario3Stim ==
    StimTable(<<[Trial |-> Num(1), Posn |-> Num(1), StimElem |-> Num(10), Time_ms |-> Num(10), Ampl |-> Num(Rat(1, 2))],
                [Trial |-> Num(1), Posn |-> Num(2), StimElem |-> Num(3), Time_ms |-> Num(20), Ampl |-> Num(Rat(1, 1))],
                [Trial |-> Num(1), Posn |-> Num(3), StimElem |-> Num(3), Time_ms |-> Num(30), Ampl |-> Num(Rat(2, 1))]>>)

\* mutant of BlocksAligned: only the first rows of the blocks are compared
BlocksAligned_FirstRow(times, sides) ==
    times = <<>> \/ times[1][1] = sides[1][1]

\* (trial_t == trial_s).all(): the trial numbers of the two blocks are the
\* same row for row
BlocksAligned(times, sides) ==
    \A r \in 1..Len(times) : times[r][1] = sides[r][1]

\* mask = trow > 0: the positions of the cells of a row that hold a time
LickMask(trow) ==
    SelectSeq([j \in 1..(Len(trow) - 1) |-> j + 1], LAMBDA k : trow[k] > 0)

\* load_lick_for_session on the numeric content of the file (a sequence of
\* rows <<trial, cell, cell, ...>>, empty cells read as 0): the upper half
\* holds the lick times, the lower half the spout sides.  read_csv raises
\* EmptyDataError on a file without a row.
LoadLick(wide) ==
    LET half  == Len(wide) \div 2
        times == SubSeq(wide, 1, half)
        sides == SubSeq(wide, half + 1, Len(wide))
        idx(r)  == LickMask(times[r])
        row(r) == [Trial |-> Num(times[r][1]),
                   LickTimes |-> [j \in 1..Len(idx(r)) |-> Num(times[r][idx(r)[j]])],
                   LickSides |-> [j \in 1..Len(idx(r)) |-> Num(sides[r][idx(r)[j]])],
                   NLicks |-> Num(Len(idx(r)))]
    IN  IF wide = <<>> THEN [error |-> "EmptyDataError", table |-> NoTable]
        ELSE IF Len(wide) % 2 # 0 THEN [error |-> "ValueError", table |-> NoTable]
        ELSE IF ~BlocksAligned(times, sides)
        THEN [error |-> "ValueError", table |-> NoTable]
        ELSE [error |-> "none",
              table |-> [present |-> TRUE, cols |-> {"Trial", "LickTimes", "LickSides", "NLicks"},
                         rows |-> [r \in 1..half |-> row(r)]]]

\* the second session of a two-session run; it comes first in data
OtherSession ==
    [base |-> "s2",
     trials |-> CHOOSE t \in TrialsTables(Num(7)) : "Trial" \in t.cols /\ \A i \in 1..MaxTrials : t.rows[i].Trial = Num(i),
     stimuli |-> Scenario3Stim, lick |-> LoadLick(<<<<1, 250>>, <<1, 2>>>>).table,
     header |-> NoTable]

\* A header row is the sequence of its (key, value) cells in the order of
\* the columns.  A key is [fam, id, num, exact]: the family of spellings it
\* belongs to ("name": a word, id its lower-case form; "letter",
\* "TrialSettings", "TrialSettings_", "TS_": a TrialSettings letter, id the
\* letter; "MW": MW_<field><num>, id the field as spelled), and whether it
\* is spelled in the case the code looks for first.
HKey(fam, id, num, exact) == [fam |-> fam, id |-> id, num |-> num, exact |-> exact]

HCell(k, v) == [key |-> k, val |-> v]

HeaderRowA ==
    <<HCell(HKey("name", "arduinomode", 0, TRUE), Num(2)),
      HCell(HKey("letter", "G", 0, TRUE), Num(50)),
      HCell(HKey("letter", "Z", 0, TRUE), Num(7)),
      HCell(HKey("MW", "RelAmp", 1, TRUE), Num(3)),
      HCell(HKey("MW", "relamp", 2, TRUE), Num(4)),
      HCell(HKey("MW", "target", 1, TRUE), Num(1))>>

HeaderRowB ==
    <<HCell(HKey("name", "arduinomode", 0, FALSE), Num(1)),
      HCell(HKey("name", "servo_amplitude", 0, TRUE), Num(9)),
      HCell(HKey("TS_", "G", 0, FALSE), Num(40)),
      HCell(HKey("TrialSettings", "H", 0, TRUE), NaN),
      HCell(HKey("letter", "X", 0, FALSE), Num(0)),
      HCell(HKey("letter", "X", 0, TRUE), Num(1)),
      HCell(HKey("MW", "ElementList", 2, TRUE), Num(3))>>

HeaderCols == {"SessionBase", "HeaderFile", "SessionTime"}

HeaderTables ==
    {NoTable,
     [present |-> TRUE, cols |-> HeaderCols, rows |-> <<>>],
     [present |-> TRUE, cols |-> HeaderCols, rows |-> <<HeaderRowA>>],
     [present |-> TRUE, cols |-> HeaderCols, rows |-> <<HeaderRowB, HeaderRowA>>]}

Session1(tr, st, lk) ==
    [base |-> "s1", trials |-> tr, stimuli |-> st, lick |-> lk,
     header |-> [present |-> TRUE, cols |-> HeaderCols, rows |-> <<HeaderRowA>>]]

\* the stimulus tables of up to MaxEvents events.  load_stimuli leaves the
\* events sorted by trial and time: their trial numbers do not decrease.
StimTables ==
    UNION {{StimTable([k \in 1..n |->
                [Trial |-> Num(tn[k]), Posn |-> Num(k), StimElem |-> el[k],
                 Time_ms |-> Num(10 * k), Ampl |-> am[k]]]) :
              tn \in {f \in [1..n -> 1..MaxTrials] : \A k \in 1..(n - 1) : f[k] <= f[k + 1]},
              el \in [1..n -> BuildElems], am \in [1..n -> BuildAmpls]}
           : n \in 0..MaxEvents}

\* a noise event and a genuine event in the last trial, none in the others
LastTrialStim ==
    StimTable(<<[Trial |-> Num(MaxTrials), Posn |-> Num(1), StimElem |-> Num(10), Time_ms |-> Num(10), Ampl |-> Num(Rat(1, 2))],
                [Trial |-> Num(MaxTrials), Posn |-> Num(2), StimElem |-> Num(3), Time_ms |-> Num(20), Ampl |-> Num(Rat(2, 1))]>>)

\* one session with a plain backbone and lick table, every stimulus table
InitBuildStim ==
    \E st \in StimTables \cup {Scenario3Stim} :
       \E tr \in TrialsTables(Num(5)), lk \in LickTables :
          /\ "Trial" \in tr.cols /\ \A i \in 1..MaxTrials : tr.rows[i].Trial = Num(i)
          /\ lk.present /\ "NLicks" \in lk.cols
          /\ data = <<Session1(tr, st, lk)>>

\* one session or two, every backbone and lick table, a few stimulus tables
InitBuildSessions ==
    \E tr \in TrialsTables(Num(5)) \cup TrialsTables(NaN), lk \in LickTables, two \in BOOLEAN,
       st \in {NoTable, Scenario3Stim, LastTrialStim}, hd \in HeaderTables :
          LET b == [Session1(tr, st, lk) EXCEPT !.header = hd]
          IN  data = IF two THEN <<OtherSession, b>> ELSE <<b>>

\* the lick files of up to MaxTrials rows a block: any trial number on a
\* row (the same on several rows too), and of the MaxLicks cells of a row
\* none, the last or all holding a time
LickFiles ==
    UNION {{[r \in 1..(2 * n) |->
                IF r <= n
                THEN <<tn[r]>> \o [k \in 1..MaxLicks |-> IF k \in on[r] THEN 250 * k ELSE 0]
                ELSE <<tn[r - n]>> \o [k \in 1..MaxLicks |-> IF k \in on[r - n] THEN 1 + (k % 2) ELSE 0]] :
              tn \in [1..n -> 1..MaxTrials],
              on \in [1..n -> {{}, {MaxLicks}, 1..MaxLicks}]}
           : n \in 0..MaxTrials}

\* one session with a backbone whose Trial column is full, or without Trial
\* column, and a stimulus table, every lick file
InitBuildLick ==
    \E w \in LickFiles :
       \E tr \in TrialsTables(Num(5)) :
          /\ \/ "Trial" \in tr.cols /\ \A i \in 1..MaxTrials : IsFinite(tr.rows[i].Trial)
             \/ "Trial" \notin tr.cols /\ "TrialInSession" \in tr.cols
          /\ data = <<Session1(tr, LastTrialStim, LoadLick(w).table)>>

\* two sessions, one of them without a backbone: no trials table, or one
\* without a row
InitBuildSkipped ==
    \E tb \in {NoTable, [present |-> TRUE, cols |-> TrialsCols \cup {"Trial"}, rows |-> <<>>]},
       first \in BOOLEAN, tr \in TrialsTables(Num(5)), st \in {NoTable, LastTrialStim},
       lk \in LickTables :
          LET skipped == [OtherSession EXCEPT !.trials = tb]
          IN  data = IF first THEN <<skipped, Session1(tr, st, lk)>>
                     ELSE <<Session1(tr, st, lk), skipped>>

InitBuild ==
    /\ df = <<>>
    /\ cols = {}
    /\ summary = <<>>
    /\ params = DefaultParams
    /\ rt_runs = 0
    /\ built = "none"
    /\ load = NoLoad
    /\ err = "none"
    /\ (InitBuildStim \/ InitBuildSessions \/ InitBuildLick \/ InitBuildSkipped)

NextBuild == BuildTrialData \/ BuildTrialData2

SpecBuild == InitBuild /\ [][NextBuild]_vars

----------------------------------------------------------------------------
(* Properties of build_trial_data *)

\* the session bundle an output row comes from
SessionOf(r) == data[CHOOSE k \in 1..Len(data) : data[k].base = r.SessionBase]

\* the genuine stimulus events of the trial of output row r, read from the
\* input: the events of its session and trial whose element is not 10
GenuineEvents(r) ==
    LET st == SessionOf(r).stimuli
    IN  IF st.present
        THEN SelectSeq(st.rows, LAMBDA ev : ev.Trial = r.Trial /\ ev.StimElem # Num(10))
        ELSE <<>>

NoiseEvents(r) ==
    LET st == SessionOf(r).stimuli
    IN  IF st.present
        THEN SelectSeq(st.rows, LAMBDA ev : ev.Trial = r.Trial /\ ev.StimElem = Num(10))
        ELSE <<>>

\* the amplitudes of the genuine events are all numbers, and there is one
MeanDefined(r) ==
    /\ Len(GenuineEvents(r)) > 0
    /\ \A k \in 1..Len(GenuineEvents(r)) : IsFinite(GenuineEvents(r)[k].Ampl)

\* (number of genuine events) x (arithmetic mean of their amplitudes)
GenuineStrength(r) ==
    LET g == GenuineEvents(r)
    IN  Num(RatMul(Rat(Len(g), 1), RatDiv(SumAmpl(g), Len(g))))

StrengthIsGenuine ==
    \A i \in 1..Len(df) : MeanDefined(df[i]) => df[i].SE_strength = GenuineStrength(df[i])

\* the trial of Scenario 3: a noise event of amplitude 0.5, genuine events of
\* amplitudes 1.0 and 2.0
IsScenario3(r) ==
    /\ Len(NoiseEvents(r)) = 1 /\ NoiseEvents(r)[1].Ampl = Num(Rat(1, 2))
    /\ Len(GenuineEvents(r)) = 2
    /\ GenuineEvents(r)[1].Ampl = Num(Rat(1, 1))
    /\ GenuineEvents(r)[2].Ampl = Num(Rat(2, 1))

\* C10: in the table of either builder, SE_strength of every trial is the
\* number of its genuine events (element not 10) times the arithmetic mean of
\* their amplitudes, the noise event never counted; the trial with events
\* {10, 0.5}, {3, 1.0}, {3, 2.0} has SE_strength 3.0.
C10_StrengthOfGenuineEvents ==
    built # "none" =>
        /\ StrengthIsGenuine
        /\ \A i \in 1..Len(df) : IsScenario3(df[i]) => df[i].SE_strength = Num(Rat(3, 1))

\* C10, build_trial_table2.py alone: there the statement holds
C10_Table2StrengthOfGenuineEvents ==
    built = "build_trial_table2" =>
        /\ StrengthIsGenuine
        /\ \A i \in 1..Len(df) : IsScenario3(df[i]) => df[i].SE_strength = Num(Rat(3, 1))

\* C10, build_trial_table.py on Scenario 3: 3 events x mean 3.5/3 = 3.5
C10_Table1Scenario3 ==
    \E i \in 1..Len(df) :
        /\ built = "build_trial_table"
        /\ IsScenario3(df[i])
        /\ df[i].SE_strength = Num(Rat(7, 2))

----------------------------------------------------------------------------
(* add_stim_isi_metrics *)

IsiRequired == {"SE_strength", "SE_Time_ms"}

\* np.unique(np.sort(arr)): the distinct values, ascending
RECURSIVE NpUnique(_)
NpUnique(S) ==
    IF S = {} THEN <<>>
    ELSE LET m == CHOOSE x \in S : \A y \in S : x <= y
         IN  <<m>> \o NpUnique(S \ {m})

RECURSIVE InsertInt(_, _)
InsertInt(x, s) ==
    IF s = <<>> THEN <<x>>
    ELSE IF Head(s) <= x THEN <<Head(s)>> \o InsertInt(x, Tail(s))
    ELSE <<x>> \o s

RECURSIVE NpSort(_)
NpSort(s) == IF s = <<>> THEN <<>> ELSE InsertInt(Head(s), NpSort(Tail(s)))

\* np.median of a sequence that is not empty
NpMedian(s) ==
    LET ss == NpSort(s)
        n  == Len(ss)
    IN  IF n % 2 = 1 THEN Rat(ss[(n + 1) \div 2], 1)
        ELSE Rat(ss[n \div 2] + ss[(n \div 2) + 1], 2)

\* mutant of IsiTimes: the valid onset times sorted, repeated ones kept
IsiTimes_NoUnique(row) ==
    LET fin == SelectSeq(row.SE_Time_ms, IsFinite)
        arr == SelectSeq(fin, LAMBDA x : Val(x) >= 0 /\ Val(x) <= max_trial_ms)
    IN  IF StimTrial(row) THEN NpSort([k \in 1..Len(arr) |-> Val(arr[k])]) ELSE <<>>

\* t: the valid onset times of the row, de-duplicated and sorted; empty for
\* a row that is not a stimulus trial
IsiTimes(row) ==
    LET fin == SelectSeq(row.SE_Time_ms, IsFinite)
        arr == SelectSeq(fin, LAMBDA x : Val(x) >= 0 /\ Val(x) <= max_trial_ms)
    IN  IF StimTrial(row) THEN NpUnique({Val(arr[k]) : k \in 1..Len(arr)}) ELSE <<>>

IsiDiffs(t) ==
    SelectSeq([k \in 1..(Len(t) - 1) |-> t[k + 1] - t[k]], LAMBDA d : d >= 0)

\* mutant of IsiRow: the onset list sorted and de-duplicated in place
IsiRow_SortsInPlace(row) ==
    LET t     == IsiTimes(row)
        diffs == IF Len(t) >= 2 THEN IsiDiffs(t) ELSE <<>>
    IN  Assign(row,
            [SE_Time_ms |-> [k \in 1..Len(t) |-> Num(t[k])],
             Stim_N |-> Len(t),
             Stim_MedianISI_ms |-> IF Len(diffs) > 0 THEN Num(NpMedian(diffs)) ELSE NaN,
             Stim_ISI1_ms |-> IF Len(diffs) > 0 THEN Num(t[2] - t[1]) ELSE NaN])

IsiRow(row) ==
    LET t     == IsiTimes(row)
        diffs == IF Len(t) >= 2 THEN IsiDiffs(t) ELSE <<>>
    IN  Assign(row,
            [Stim_N |-> Len(t),
             Stim_MedianISI_ms |-> IF Len(diffs) > 0 THEN Num(NpMedian(diffs)) ELSE NaN,
             Stim_ISI1_ms |-> IF Len(diffs) > 0 THEN Num(t[2] - t[1]) ELSE NaN])

IsiNewCols == {"Stim_N", "Stim_MedianISI_ms", "Stim_ISI1_ms"}

AddStimIsiMetrics ==
    /\ err = "none"
    /\ IF IsiRequired \subseteq cols
       THEN /\ df' = [i \in 1..Len(df) |-> IsiRow(df[i])]
            /\ cols' = cols \cup IsiNewCols
            /\ err' = err
       ELSE /\ err' = "KeyError"
            /\ UNCHANGED <<df, cols>>
    /\ UNCHANGED <<data, summary, params, rt_runs, built, load>>

----------------------------------------------------------------------------
(* add_header_fields (header_extract.py) *)

HeaderRequired == {"SessionBase", "Header"}

\* a key to look for: family and id, in the spelling of the code
Cand(fam, id) == [fam |-> fam, id |-> id, num |-> 0]

KeyBase(k) == [fam |-> k.fam, id |-> k.id, num |-> k.num]

\* _get_any: the value of the first key of keys that the bundle has as it
\* is spelled, else of the first that it has in another case (of several
\* keys that differ in case only, the last of the bundle); <<>> for None
GetAny(h, keys) ==
    LET isExact(c) == \E i \in 1..Len(h) : KeyBase(h[i].key) = c /\ h[i].key.exact
        isLow(c)   == \E i \in 1..Len(h) : KeyBase(h[i].key) = c
        ex == SelectSeq(keys, isExact)
        lo == SelectSeq(keys, isLow)
        exactVal(c) == h[CHOOSE i \in 1..Len(h) : KeyBase(h[i].key) = c /\ h[i].key.exact].val
        lowVal(c) ==
            h[CHOOSE i \in 1..Len(h) :
                /\ KeyBase(h[i].key) = c
                /\ \A j \in 1..Len(h) : KeyBase(h[j].key) = c => j <= i].val
    IN  IF ex # <<>> THEN <<exactVal(ex[1])>>
        ELSE IF lo # <<>> THEN <<lowVal(lo[1])>>
        ELSE <<>>

\* _to_float of what _get_any returned: None stays None, a number is itself
ToFloat(x) == IF x = <<>> THEN NaN ELSE x[1]

TsLetters ==
    <<"G", "H", "I", "J", "K", "L", "M", "N", "O", "P", "Q", "R", "S", "T", "U", "V", "W",
      "X", "Y", "Z">>

TsColumns ==
    <<"TS_G", "TS_H", "TS_I", "TS_J", "TS_K", "TS_L", "TS_M", "TS_N", "TS_O", "TS_P", "TS_Q",
      "TS_R", "TS_S", "TS_T", "TS_U", "TS_V", "TS_W", "TS_X", "TS_Y", "TS_Z">>

alias ==
    [lick0thr_ms |-> "G", lick1thr_ms |-> "H", RW_start_ms |-> "I", RW_dur_ms |-> "J",
     Solenoid_us |-> "K", Timeout_ms |-> "L", behavMode |-> "N", UseAutoReward |-> "O",
     RewardTime_ms |-> "P", tone_onset_ms |-> "T", tone_freq_Hz |-> "U", tone_dur_ms |-> "V",
     TaskIs2AFC |-> "X"]

\* the MW_ columns and the field each is looked up under
MwColumns ==
    [MW_ElementList |-> "ElementList", MW_RelAmp |-> "RelAmp", MW_Tone |-> "Tone",
     MW_Prob |-> "Prob", MW_target |-> "Target", MW_Laser |-> "Laser", MW_v3Jit |-> "V3Jit",
     MW_v3freq |-> "V3freq"]

\* field[0].upper() + field[1:] of the spellings of the input
FieldStd(field) ==
    CASE field = "relamp" -> "Relamp"
      [] field = "target" -> "Target"
      [] field = "v3Jit" -> "V3Jit"
      [] field = "v3freq" -> "V3freq"
      [] OTHER -> field

\* the header bundle of a session's rows g: the first that is a dict with
\* a key, <<>> if there is none
PickHeader(g) ==
    LET hs == SelectSeq(g, LAMBDA r : r.Header # <<>> /\ Len(r.Header[1]) > 0)
    IN  IF hs = <<>> THEN <<>> ELSE hs[1].Header[1]

ServoAmplitude(hdr) ==
    LET first == GetAny(hdr, <<Cand("name", "servo_amplitude"), Cand("name", "servoamplitude")>>)
    IN  IF first # <<>> THEN ToFloat(first)
        ELSE ToFloat(GetAny(hdr, <<Cand("letter", "Z"), Cand("TrialSettings", "Z"),
                                   Cand("TrialSettings_", "Z"),
                                   Cand("name", "servo movement amplitude")>>))

TsValue(hdr, c) ==
    ToFloat(GetAny(hdr, <<Cand("letter", c), Cand("TrialSettings", c),
                          Cand("TrialSettings_", c), Cand("TS_", c)>>))

\* sess_info["MW"][field][stimnum]: the value of the last key of the bundle
\* that gives this field and number, <<>> if there is none
MwValue(hdr, field, stimnum) ==
    LET hits == SelectSeq(hdr, LAMBDA e :
                    e.key.fam = "MW" /\ FieldStd(e.key.id) = field /\ e.key.num = stimnum)
    IN  IF hits = <<>> THEN NaN ELSE hits[Len(hits)].val

\* the rows of the session of row r, in the order of the table
SessionGroup(t, r) == SelectSeq(t, LAMBDA x : x.SessionBase = r.SessionBase)

HeaderRow(t, c, r) ==
    LET hdr == PickHeader(SessionGroup(t, r))
        ts(letter) == TsValue(hdr, letter)
        letterOf(col) == TsLetters[CHOOSE k \in 1..Len(TsColumns) : TsColumns[k] = col]
        sn == IF "StimNum" \in c THEN r.StimNum ELSE NaN
    IN  Assign(r,
            [ArduinoMode |-> ToFloat(GetAny(hdr, <<Cand("name", "arduinomode")>>)),
             Servo_Amplitude |-> ServoAmplitude(hdr)]
            @@ [col \in {TsColumns[k] : k \in 1..Len(TsColumns)} |-> ts(letterOf(col))]
            @@ [name \in DOMAIN alias |-> ts(alias[name])]
            @@ [col \in DOMAIN MwColumns |->
                   IF IsFinite(sn) THEN MwValue(hdr, MwColumns[col], Val(sn)) ELSE NaN])

HeaderNewCols ==
    {"ArduinoMode", "Servo_Amplitude"} \cup {TsColumns[k] : k \in 1..Len(TsColumns)}
        \cup DOMAIN alias \cup DOMAIN MwColumns

AddHeaderFields ==
    /\ err = "none"
    /\ IF HeaderRequired \subseteq cols
       THEN /\ df' = [i \in 1..Len(df) |-> HeaderRow(df, cols, df[i])]
            /\ cols' = cols \cup HeaderNewCols
            /\ err' = err
       ELSE /\ err' = "KeyError"
            /\ UNCHANGED <<df, cols>>
    /\ UNCHANGED <<data, summary, params, rt_runs, built, load>>

----------------------------------------------------------------------------
(* The pipeline: the table is built, then the columns are derived from it *)

NextPipe ==
    \/ BuildTrialData
    \/ BuildTrialData2
    \/ (built # "none" /\ AddStimIsiMetrics)
    \/ (built # "none" /\ AddGngOutcomes)
    \/ (built # "none" /\ AddHeaderFields)

\* the runs of the pipeline start from the session bundles of
\* InitBuildSessions
InitPipe ==
    /\ df = <<>>
    /\ cols = {}
    /\ summary = <<>>
    /\ params = DefaultParams
    /\ rt_runs = 0
    /\ built = "none"
    /\ load = NoLoad
    /\ err = "none"
    /\ InitBuildSessions

SpecPipe == InitPipe /\ [][NextPipe]_vars

\* every stimulus event of the trial of output row r, noise or not
AllEvents(r) ==
    LET st == SessionOf(r).stimuli
    IN  IF st.present THEN SelectSeq(st.rows, LAMBDA ev : ev.Trial = r.Trial) ELSE <<>>

\* what C11 says of a row whose trial has no stimulus event
EmptyListIsStimAbsent(r) ==
    /\ r.SE_strength = Num(Rat(0, 1))
    /\ "Stim_N" \in cols => r.Stim_N = 0
    /\ "Outcome_GNG" \in cols =>
          /\ r.Outcome_GNG \notin {"Hit", "Miss"}
          /\ RwValid(r.RW_lo_ms, r.RW_hi_ms) /\ ~SpecialOrig(r) =>
                r.Outcome_GNG \in {"FalseAlarm", "CorrectRejection"}

\* C11: a trial without any stimulus event (no row of its number in the
\* stimuli table, or no stimuli table) has SE_strength 0 in the table of
\* either builder and Stim_N 0, and add_gng_outcomes labels it FalseAlarm or
\* CorrectRejection when its window is valid: never Hit or Miss, never
\* unlabelled for a null strength.
C11_EmptyStimListIsStimAbsent ==
    built # "none" =>
        \A i \in 1..Len(df) : Len(AllEvents(df[i])) = 0 => EmptyListIsStimAbsent(df[i])

\* C11, build_trial_table2.py alone: there the statement holds
C11_Table2EmptyStimList ==
    built = "build_trial_table2" =>
        \A i \in 1..Len(df) : Len(AllEvents(df[i])) = 0 => EmptyListIsStimAbsent(df[i])

\* C11, build_trial_table.py: a trial without events has a null strength,
\* Stim_N 0, and is left unlabelled though its window is valid
C11_Table1Unlabelled ==
    \E i \in 1..Len(df) :
        /\ built = "build_trial_table"
        /\ Len(AllEvents(df[i])) = 0
        /\ df[i].SE_strength = NaN
        /\ {"Stim_N", "Outcome_GNG"} \subseteq cols
        /\ df[i].Stim_N = 0
        /\ RwValid(df[i].RW_lo_ms, df[i].RW_hi_ms)
        /\ df[i].Outcome_GNG = "None"

\* both stimulus-absent labels are given after build_trial_table2.py
C11_Table2BothLabels ==
    /\ built = "build_trial_table2" /\ "Outcome_GNG" \in cols
    /\ \E i, j \in 1..Len(df) :
          /\ Len(AllEvents(df[i])) = 0 /\ df[i].Outcome_GNG = "FalseAlarm"
          /\ Len(AllEvents(df[j])) = 0 /\ df[j].Outcome_GNG = "CorrectRejection"

----------------------------------------------------------------------------
\* the noise events of the trial of row r whose amplitude is a number
NumericNoise(r) == SelectSeq(NoiseEvents(r), LAMBDA ev : IsFinite(ev.Ampl))

----------------------------------------------------------------------------
\* the lick rows of the session of output row r that carry its trial number
LickRowsOf(r) ==
    LET lk == SessionOf(r).lick
    IN  IF lk.present /\ "Trial" \in lk.cols
        THEN SelectSeq(lk.rows, LAMBDA x : x.Trial = r.Trial)
        ELSE <<>>

\* C13: in every row of the table of build_trial_data, NLicks is the length
\* of the row's LickTimes; a trial without a lick row has 0 and the empty
\* list.
C13_NLicksIsLength ==
    built # "none" =>
        \A i \in 1..Len(df) :
            /\ df[i].NLicks = Len(df[i].LickTimes)
            /\ Len(LickRowsOf(df[i])) = 0 => df[i].NLicks = 0 /\ df[i].LickTimes = <<>>

\* a table with a trial matched by two lick rows of different lengths, with
\* licks in the row kept, and a trial without a lick row
C13_Witness ==
    /\ built # "none"
    /\ \E i, j \in 1..Len(df) :
          /\ Len(LickRowsOf(df[i])) = 2
          /\ Len(LickRowsOf(df[i])[1].LickTimes) # Len(LickRowsOf(df[i])[2].LickTimes)
          /\ df[i].NLicks > 0
          /\ Len(LickRowsOf(df[j])) = 0

----------------------------------------------------------------------------
\* the backbone of every session has a column that numbers its trials
\* (load_trials_for_session always adds TrialInSession)
BackboneNumbered ==
    \A k \in 1..Len(data) :
        data[k].trials.present =>
            "Trial" \in data[k].trials.cols \/ "TrialInSession" \in data[k].trials.cols

\* the trials of the backbone of session b whose number resolves
ResolvedTrials(b) ==
    IF b.trials.present
    THEN SelectSeq(CanonicalTrials(b)[2], LAMBDA tr : IsFinite(tr.Trial))
    ELSE <<>>

\* C14: build_trial_data does not fail for an absent stimuli or lick table
\* or a trial without a row in them: every backbone trial is in the output,
\* with LickTimes [], LickSides [], NLicks 0 when no lick row matches it and
\* the four SE_ lists empty when no stimulus row matches it.
C14_AbsentInputsGiveEmptyLists ==
    BackboneNumbered =>
        /\ err = "none"
        /\ built # "none" =>
              /\ \A k \in 1..Len(data) : \A j \in 1..Len(ResolvedTrials(data[k])) :
                    \E i \in 1..Len(df) :
                        /\ df[i].SessionBase = data[k].base
                        /\ df[i].Trial = ResolvedTrials(data[k])[j].Trial
              /\ \A i \in 1..Len(df) :
                    /\ Len(LickRowsOf(df[i])) = 0 =>
                          df[i].LickTimes = <<>> /\ df[i].LickSides = <<>> /\ df[i].NLicks = 0
                    /\ Len(AllEvents(df[i])) = 0 =>
                          /\ df[i].SE_Posn = <<>> /\ df[i].SE_StimElem = <<>>
                          /\ df[i].SE_Time_ms = <<>> /\ df[i].SE_Ampl = <<>>

\* a table with a trial of a session without stimuli and lick table, and a
\* trial that has no row in the stimuli and lick tables of its session
C14_Witness ==
    /\ built # "none"
    /\ \E i, j \in 1..Len(df) :
          /\ ~SessionOf(df[i]).stimuli.present /\ ~SessionOf(df[i]).lick.present
          /\ SessionOf(df[j]).stimuli.present /\ SessionOf(df[j]).lick.present
          /\ Len(AllEvents(df[j])) = 0 /\ Len(LickRowsOf(df[j])) = 0

----------------------------------------------------------------------------
\* the rows of the output that carry the name of session b
RowsOfSession(b) == SelectSeq(df, LAMBDA r : r.SessionBase = b.base)

\* C15: the table of build_trial_data has, for each session, as many rows as
\* the session's trials table has rows with a resolved trial number; the
\* rows with a null number are dropped, and a session without trials table
\* or with an empty one gives no row and leaves the other sessions' rows.
C15_RowsPerSession ==
    built # "none" =>
        /\ \A k \in 1..Len(data) :
              Len(RowsOfSession(data[k])) = Len(ResolvedTrials(data[k]))
        /\ \A i \in 1..Len(df) : IsFinite(df[i].Trial)
        /\ \A k \in 1..Len(data) :
              ~data[k].trials.present \/ Len(data[k].trials.rows) = 0 =>
                  Len(RowsOfSession(data[k])) = 0

\* a session without backbone comes first, and the other session, one of
\* whose trial numbers is null, has its rows
C15_Witness ==
    /\ built # "none"
    /\ Len(data) = 2
    /\ Len(data[1].trials.rows) = 0
    /\ \E j \in 1..Len(data[2].trials.rows) :
          "Trial" \in data[2].trials.cols /\ data[2].trials.rows[j].Trial = NaN
    /\ Len(df) = Len(data[2].trials.rows) - 1
    /\ Len(df) > 0

----------------------------------------------------------------------------
\* C16: no two rows of the table of build_trial_data have the same
\* (SessionBase, Trial), whatever the input bundles.
C16_TrialIdentityUnique ==
    built # "none" =>
        \A i, j \in 1..Len(df) :
            i # j => ~(df[i].SessionBase = df[j].SessionBase /\ df[i].Trial = df[j].Trial)

\* C16 for the backbones whose resolved trial numbers differ: there the
\* statement holds
C16_UniqueWhenBackboneUnique ==
    (/\ built # "none"
     /\ \A k \in 1..Len(data) : \A i, j \in 1..Len(ResolvedTrials(data[k])) :
           i # j => ResolvedTrials(data[k])[i].Trial # ResolvedTrials(data[k])[j].Trial)
    => \A i, j \in 1..Len(df) :
           i # j => ~(df[i].SessionBase = df[j].SessionBase /\ df[i].Trial = df[j].Trial)

\* two rows of the trials table carry the number 1, and so do two output rows
C16_DuplicateRows ==
    /\ built # "none"
    /\ Len(data) = 1 /\ "Trial" \in data[1].trials.cols
    /\ data[1].trials.rows[1].Trial = Num(1) /\ data[1].trials.rows[2].Trial = Num(1)
    /\ Len(df) >= 2 /\ df[1].Trial = Num(1) /\ df[2].Trial = Num(1)
    /\ df[1].SessionBase = df[2].SessionBase

----------------------------------------------------------------------------
\* the sessions in the opposite order of processing
ReverseSessions(d) == [k \in 1..Len(d) |-> d[Len(d) + 1 - k]]

\* row a does not come after row b in (SessionTime, SessionBase, Trial)
\* ascending, a null SessionTime last
KeyAscending(a, b) ==
    LET hasT == "SessionTime" \in cols
        na == ~hasT \/ a.SessionTime = NaN
        nb == ~hasT \/ b.SessionTime = NaN
    IN  IF na # nb THEN nb
        ELSE IF ~na /\ Val(a.SessionTime) # Val(b.SessionTime)
        THEN Val(a.SessionTime) < Val(b.SessionTime)
        ELSE IF a.SessionBase # b.SessionBase
        THEN BaseRank(a.SessionBase) < BaseRank(b.SessionBase)
        ELSE Val(a.Trial) <= Val(b.Trial)

\* C17: the table of build_trial_data is the one the sessions give in any
\* other order of processing, rows and order of the rows, and its rows are
\* ascending in (SessionTime, SessionBase, Trial).
C17_SessionOrderIrrelevant ==
    /\ built = "build_trial_table" => df = BuildTable(ReverseSessions(data))
    /\ built = "build_trial_table2" => df \in BuildTables2(ReverseSessions(data))
    /\ built # "none" => \A i, j \in 1..Len(df) : i < j => KeyAscending(df[i], df[j])

\* two sessions with rows, processed in the order opposite to the sorted one
C17_Witness ==
    /\ built # "none"
    /\ Len(data) = 2
    /\ Len(df) > Len(data[1].trials.rows)
    /\ df[1].SessionBase = data[2].base
    /\ df[Len(df)].SessionBase = data[1].base


\* the rank in its trials table of the backbone row that output row r was
\* made from (TrStartTime is 100 times the rank in every trials table)
BackboneRank(r) == Val(r.TrStartTime) \div 100

\* C26: the trial number of an output row of build_trial_data is that of
\* the Trial column of the trials table when the table has one; otherwise
\* the number on the row of the same rank of the lick table, when the lick
\* table has a Trial column and as many rows as the trials table; otherwise
\* TrialInSession.
C26_TrialFallbackOrder ==
    built # "none" =>
        \A i \in 1..Len(df) :
            LET b  == SessionOf(df[i])
                k  == BackboneRank(df[i])
            IN  df[i].Trial =
                   IF "Trial" \in b.trials.cols THEN b.trials.rows[k].Trial
                   ELSE IF /\ b.lick.present /\ "Trial" \in b.lick.cols
                           /\ Len(b.lick.rows) = Len(b.trials.rows)
                   THEN b.lick.rows[k].Trial
                   ELSE b.trials.rows[k].TrialInSession

\* a session without Trial column was numbered by its lick table of equal
\* length, whose numbers differ from TrialInSession
C26_Witness ==
    /\ built # "none"
    /\ \E i \in 1..Len(df) :
          LET b == SessionOf(df[i])
              k == BackboneRank(df[i])
          IN  /\ "Trial" \notin b.trials.cols /\ "TrialInSession" \in b.trials.cols
              /\ b.lick.present /\ "Trial" \in b.lick.cols
              /\ Len(b.lick.rows) = Len(b.trials.rows)
              /\ df[i].Trial = b.lick.rows[k].Trial
              /\ df[i].Trial # df[i].TrialInSession

\* a session without Trial column and with a lick table of another length
\* was numbered by TrialInSession
C26_FallbackToIndex ==
    /\ built # "none"
    /\ \E i \in 1..Len(df) :
          LET b == SessionOf(df[i])
          IN  /\ "Trial" \notin b.trials.cols
              /\ b.lick.present /\ "Trial" \in b.lick.cols
              /\ Len(b.lick.rows) # Len(b.trials.rows)
              /\ df[i].Trial = df[i].TrialInSession
----------------------------------------------------------------------------
\* the first row of the header table of a session, <<>> without one
FirstHeaderRow(b) ==
    IF b.header.present /\ Len(b.header.rows) > 0 THEN <<b.header.rows[1]>> ELSE <<>>

\* C18: every trial of a session carries the session's header bundle (the
\* first row of its header table, null without one), and add_header_fields
\* writes the same value of every session-level column (ArduinoMode,
\* Servo_Amplitude, TS_G..TS_Z, their aliases) on every trial of a session.
C18_HeaderBroadcast ==
    built # "none" =>
        /\ \A i \in 1..Len(df) : df[i].Header = FirstHeaderRow(SessionOf(df[i]))
        /\ "ArduinoMode" \in cols =>
              \A i, j \in 1..Len(df) :
                  df[i].SessionBase = df[j].SessionBase =>
                      \A c \in HeaderNewCols \ DOMAIN MwColumns : df[i][c] = df[j][c]

\* two sessions, one with a header of two rows and one without header, each
\* with several trials, after add_header_fields
C18_Witness ==
    /\ built # "none" /\ "ArduinoMode" \in cols
    /\ \E i, j, k \in 1..Len(df) :
          /\ i # j /\ df[i].SessionBase = df[j].SessionBase
          /\ Len(SessionOf(df[i]).header.rows) = 2
          /\ df[i].ArduinoMode = Num(1) /\ df[i].TS_G = Num(40) /\ df[i].TaskIs2AFC = Num(1)
          /\ df[k].SessionBase # df[i].SessionBase
          /\ df[k].Header = <<>> /\ df[k].ArduinoMode = NaN

----------------------------------------------------------------------------
(* load_all_sessions (load_session.py) *)
(*                                                                          *)
(* load.disk is the folder: the sessions list_sessions discovers, in its    *)
(* order, and for each what its files are.  For the trials, stimuli and     *)
(* header file that is "ok", "missing" (the loader raises                   *)
(* FileNotFoundError) or "malformed" (the parser raises); for the lick file *)
(* it is <<>> (no file) or <<wide>>, the numeric content of the file.       *)

\* the table a loader returns for a well-formed file of session base
LoadedTable(base, ftype) ==
    CASE ftype = "trials" ->
            [present |-> TRUE, cols |-> TrialsCols \cup {"Trial"},
             rows |-> [i \in 1..MaxTrials |->
                          Assign(TrialsRow(i, Num(BaseRank(base))), [Trial |-> Num(i)])]]
      [] ftype = "stimuli" -> IF base = "s1" THEN Scenario3Stim ELSE LastTrialStim
      [] ftype = "header" ->
            [present |-> TRUE, cols |-> HeaderCols,
             rows |-> IF base = "s1" THEN <<HeaderRowA>> ELSE <<HeaderRowB, HeaderRowA>>]

\* loader(folder, base): the exception it raises ("none" if it returns) and
\* the table it returns
LoaderCall(sess, ftype) ==
    IF ftype = "lick"
    THEN IF sess.lick = <<>>
         THEN [error |-> "FileNotFoundError", table |-> NoTable]
         ELSE LoadLick(sess.lick[1])
    ELSE CASE sess[ftype] = "ok" -> [error |-> "none", table |-> LoadedTable(sess.base, ftype)]
           [] sess[ftype] = "missing" -> [error |-> "FileNotFoundError", table |-> NoTable]
           [] sess[ftype] = "malformed" -> [error |-> "ParserError", table |-> NoTable]

\* mutant of Raises: a missing file is an error like any other
Raises_AnyFailure(res, on_error) == res.error # "none" /\ on_error = "raise"

\* the exception of the loader leaves load_all_sessions
Raises(res, on_error) ==
    res.error \notin {"none", "FileNotFoundError"} /\ on_error = "raise"

\* the exception that ends the loop over the loaders for session sess,
\* "none" if the loop runs to its end
FirstRaise(sess, loaders, on_error) ==
    LET bad == SelectSeq(loaders, LAMBDA f : Raises(LoaderCall(sess, f), on_error))
    IN  IF bad = <<>> THEN "none" ELSE LoaderCall(sess, bad[1]).error

\* data[base] after the loop over the loaders: the table of a loader that
\* returned, None (NoTable) for one that raised; no entry for a file type
\* that is not a key of loaders
LoadBundle(sess, loaders) ==
    LET keys == {loaders[k] : k \in 1..Len(loaders)}
        entry(f) == IF f \in keys /\ LoaderCall(sess, f).error = "none"
                    THEN LoaderCall(sess, f).table
                    ELSE NoTable
    IN  [base |-> sess.base, keys |-> keys, trials |-> entry("trials"),
         stimuli |-> entry("stimuli"), lick |-> entry("lick"), header |-> entry("header")]

\* mutant of LoadLoop: the loop over the sessions ends after the first
\* session one of whose loaders failed
RECURSIVE LoadLoop_StopAtFailure(_, _, _)
LoadLoop_StopAtFailure(disk, loaders, on_error) ==
    IF disk = <<>> THEN [raised |-> "none", data |-> <<>>]
    ELSE LET r == FirstRaise(Head(disk), loaders, on_error)
             failed == \E k \in 1..Len(loaders) :
                           LoaderCall(Head(disk), loaders[k]).error # "none"
             rest == IF failed THEN [raised |-> "none", data |-> <<>>]
                     ELSE LoadLoop_StopAtFailure(Tail(disk), loaders, on_error)
         IN  IF r # "none" THEN [raised |-> r, data |-> <<>>]
             ELSE [raised |-> rest.raised, data |-> <<LoadBundle(Head(disk), loaders)>> \o rest.data]

\* the loop over the sessions: the exception that leaves it, or the data
RECURSIVE LoadLoop(_, _, _)
LoadLoop(disk, loaders, on_error) ==
    IF disk = <<>> THEN [raised |-> "none", data |-> <<>>]
    ELSE LET r == FirstRaise(Head(disk), loaders, on_error)
             rest == LoadLoop(Tail(disk), loaders, on_error)
         IN  IF r # "none" THEN [raised |-> r, data |-> <<>>]
             ELSE [raised |-> rest.raised, data |-> <<LoadBundle(Head(disk), loaders)>> \o rest.data]

LoadAllSessions ==
    /\ err = "none"
    /\ ~load.returned
    /\ IF load.on_error \notin {"skip", "raise"}
       THEN /\ err' = "ValueError"
            /\ UNCHANGED <<data, load>>
       ELSE LET r == LoadLoop(load.disk, load.loaders, load.on_error)
            IN  IF r.raised # "none"
                THEN /\ err' = r.raised
                     /\ UNCHANGED <<data, load>>
                ELSE /\ data' = r.data
                     /\ load' = [load EXCEPT !.returned = TRUE]
                     /\ err' = err
    /\ UNCHANGED <<df, cols, summary, params, rt_runs, built>>

\* lick files: well formed, with an odd number of rows, and with blocks
\* whose trial numbers differ
LickFileOk == <<<<1, 250, 0>>, <<2, 0, 300>>, <<1, 1, 0>>, <<2, 0, 2>>>>

LickFileOdd == <<<<1, 250, 0>>, <<2, 0, 300>>, <<1, 1, 0>>>>

LickFileMismatch == <<<<1, 250, 0>>, <<2, 1, 0>>>>

DiskSessions(base) ==
    [base : {base}, trials : {"ok", "malformed"}, stimuli : {"ok", "missing", "malformed"},
     header : {"ok", "missing"},
     lick : {<<>>, <<LickFileOk>>, <<LickFileOdd>>, <<LickFileMismatch>>}]

LoaderDicts ==
    {<<"trials", "stimuli", "lick", "header">>, <<"header", "lick", "stimuli", "trials">>,
     <<"lick", "trials">>}

InitLoad ==
    /\ data = <<>>
    /\ df = <<>>
    /\ cols = {}
    /\ summary = <<>>
    /\ params = DefaultParams
    /\ rt_runs = 0
    /\ built = "none"
    /\ err = "none"
    /\ \E oe \in {"skip", "raise", "ignore"}, ld \in LoaderDicts :
          \E dk \in {<<>>} \cup {<<a>> : a \in DiskSessions("s1")}
                    \cup {<<a, b>> : a \in DiskSessions("s2"), b \in DiskSessions("s1")} :
             load = [on_error |-> oe, loaders |-> ld, disk |-> dk, returned |-> FALSE]

NextLoad == LoadAllSessions

SpecLoad == InitLoad /\ [][NextLoad]_vars

----------------------------------------------------------------------------
(* Properties of load_all_sessions *)

LoadDone == load.returned \/ err # "none"

ValidOnError == load.on_error \in {"skip", "raise"}

\* the (session, file type) pairs the call has a loader for
LoadPairs == {<<k, load.loaders[j]>> : k \in 1..Len(load.disk), j \in 1..Len(load.loaders)}

LoaderError(p) == LoaderCall(load.disk[p[1]], p[2]).error

NotFoundPairs == {p \in LoadPairs : LoaderError(p) = "FileNotFoundError"}

MalformedPairs == {p \in LoadPairs : LoaderError(p) \notin {"none", "FileNotFoundError"}}

\* C19: a loader that signals file-not-found gives a null entry and the run
\* goes on, under both settings of on_error; a loader that fails otherwise
\* gives a null entry and the run goes on under 'skip', and its error
\* reaches the caller under 'raise'.
C19_NotFoundNullOtherPerPolicy ==
    (LoadDone /\ ValidOnError) =>
        /\ (MalformedPairs = {} \/ load.on_error = "skip") =>
              /\ load.returned /\ err = "none"
              /\ \A p \in NotFoundPairs \cup MalformedPairs : data[p[1]][p[2]] = NoTable
        /\ (MalformedPairs # {} /\ load.on_error = "raise") =>
              /\ ~load.returned
              /\ \E p \in MalformedPairs : err = LoaderError(p)

\* under 'raise' the loaders of the first session met a missing file and
\* went on, and the error of a malformed file of the second session left
\* the call
C19_Witness ==
    /\ load.on_error = "raise" /\ Len(load.disk) = 2
    /\ \E p \in NotFoundPairs : p[1] = 1
    /\ \A p \in MalformedPairs : p[1] = 2
    /\ err = "ParserError"

\* C20: in the data load_all_sessions returns, every session discovered has
\* an entry for every key of loaders, and every entry holds what its loader
\* returned (null for a loader that failed): a failing load changes no other
\* entry, and the sessions after it are loaded.
C20_FailureIsLocal ==
    load.returned =>
        /\ Len(data) = Len(load.disk)
        /\ \A k \in 1..Len(load.disk) :
              /\ data[k].base = load.disk[k].base
              /\ data[k].keys = {load.loaders[j] : j \in 1..Len(load.loaders)}
              /\ \A f \in data[k].keys :
                    data[k][f] = IF LoaderCall(load.disk[k], f).error = "none"
                                 THEN LoaderCall(load.disk[k], f).table
                                 ELSE NoTable

\* a malformed lick file in the first session; the four tables of the
\* second session are loaded
C20_Witness ==
    /\ load.returned /\ Len(load.disk) = 2 /\ Len(load.loaders) = 4
    /\ LoaderCall(load.disk[1], "lick").error = "ValueError"
    /\ data[1].lick = NoTable /\ data[1].trials.present
    /\ data[2].trials.present /\ data[2].stimuli.present
    /\ data[2].lick.present /\ data[2].header.present

----------------------------------------------------------------------------
(* load_lick_for_session (load_lick.py), called on one lick file            *)
(*                                                                          *)
(* load.disk holds the one session whose lick file is read; data receives   *)
(* the table the call returned.                                             *)

LoadLickForSession ==
    /\ err = "none"
    /\ ~load.returned
    /\ Len(load.disk) = 1
    /\ LET res == LoaderCall(load.disk[1], "lick")
       IN  IF res.error # "none"
           THEN /\ err' = res.error
                /\ UNCHANGED <<data, load>>
           ELSE /\ data' = <<[base |-> load.disk[1].base, trials |-> NoTable,
                              stimuli |-> NoTable, lick |-> res.table, header |-> NoTable]>>
                /\ load' = [load EXCEPT !.returned = TRUE]
                /\ err' = err
    /\ UNCHANGED <<df, cols, summary, params, rt_runs, built>>

\* which of the MaxLicks cells of a row hold a value
LickPatterns == {{}, {1}, {MaxLicks}, 1..MaxLicks}

\* the lick files of up to MaxTrials rows a block, a last row too many or
\* not: any trial number on a row of the time block, the same numbers in
\* the side block or another number on one of its rows
LickFilesAny ==
    UNION {{[r \in 1..(2 * n + extra) |->
                IF r <= n
                THEN <<tn[r]>> \o [k \in 1..MaxLicks |-> IF k \in on[r] THEN 250 * k ELSE 0]
                ELSE IF r <= 2 * n
                THEN <<IF r - n = p THEN (tn[p] % MaxTrials) + 1 ELSE tn[r - n]>>
                     \o [k \in 1..MaxLicks |-> IF k \in on[r - n] THEN 1 + (k % 2) ELSE 0]
                ELSE <<1>> \o [k \in 1..MaxLicks |-> 0]] :
              tn \in [1..n -> 1..MaxTrials], on \in [1..n -> LickPatterns],
              p \in 0..n, extra \in 0..1}
           : n \in 0..MaxTrials}

InitLick ==
    /\ data = <<>>
    /\ df = <<>>
    /\ cols = {}
    /\ summary = <<>>
    /\ params = DefaultParams
    /\ rt_runs = 0
    /\ built = "none"
    /\ err = "none"
    /\ \E f \in {<<>>} \cup {<<w>> : w \in LickFilesAny} :
          load = [on_error |-> "raise", loaders |-> <<"lick">>,
                  disk |-> <<[base |-> "s1", trials |-> "missing", stimuli |-> "missing",
                              header |-> "missing", lick |-> f]>>,
                  returned |-> FALSE]

NextLick == LoadLickForSession

SpecLick == InitLick /\ [][NextLick]_vars

----------------------------------------------------------------------------
(* Properties of load_lick_for_session *)

\* the content of the lick file that was read
LickWide == load.disk[1].lick[1]

LickFileExists == load.disk[1].lick # <<>>

OddRows == Len(LickWide) % 2 # 0

\* a row of the time block and the row of the same rank of the side block
\* start with different trial numbers
TrialColumnsDiffer ==
    LET half == Len(LickWide) \div 2
    IN  ~OddRows /\ \E r \in 1..half : LickWide[r][1] # LickWide[half + r][1]

\* C21: load_lick_for_session raises ValueError (not the FileNotFoundError
\* of an absent file) and returns no table when the file has an odd number
\* of rows or the trial numbers of its two blocks differ on some row; it
\* returns a table only for a file that passes both checks.
C21_MalformedLickFileFails ==
    LoadDone =>
        /\ LickFileExists /\ (OddRows \/ TrialColumnsDiffer) =>
              err = "ValueError" /\ data = <<>>
        /\ ~LickFileExists => err = "FileNotFoundError" /\ data = <<>>
        /\ data # <<>> =>
              /\ LickFileExists /\ ~OddRows /\ ~TrialColumnsDiffer
              /\ err = "none" /\ data[1].lick.present

\* a file whose blocks agree on the first row and differ on a later one
\* was refused
C21_Witness ==
    /\ LoadDone /\ LickFileExists /\ TrialColumnsDiffer
    /\ LickWide[1][1] = LickWide[Len(LickWide) \div 2 + 1][1]
    /\ err = "ValueError"

\* the table load_lick_for_session returned
LickTable == data[1].lick

\* the cells of a row of the file after its trial number
CellsOf(r) == SubSeq(LickWide[r], 2, Len(LickWide[r]))

\* the length of the longest prefix of cells without a zero
RECURSIVE PrefixLen(_)
PrefixLen(cells) ==
    IF cells = <<>> \/ Head(cells) = 0 THEN 0 ELSE 1 + PrefixLen(Tail(cells))

\* the cells of a row up to its first zero
PrefixBeforeZero(cells) == SubSeq(cells, 1, PrefixLen(cells))

\* C24: in the table load_lick_for_session returns, LickTimes of a row is
\* the prefix of the row's cells in the time block that precedes the first
\* zero, and LickSides is the prefix of the same length of the side block.
C24_LickTimesIsPrefix ==
    data # <<>> =>
        \A r \in 1..Len(LickTable.rows) :
            LET t == PrefixBeforeZero(CellsOf(r))
                s == SubSeq(CellsOf(Len(LickTable.rows) + r), 1, Len(t))
            IN  /\ LickTable.rows[r].LickTimes = [k \in 1..Len(t) |-> Num(t[k])]
                /\ LickTable.rows[r].LickSides = [k \in 1..Len(s) |-> Num(s[k])]

\* what the code does: LickTimes holds every positive cell of the row, in
\* order, also those after a zero, and LickSides the cells of the side
\* block at the same positions
C24_LickTimesArePositiveCells ==
    data # <<>> =>
        \A r \in 1..Len(LickTable.rows) :
            LET half == Len(LickTable.rows)
                pos  == SelectSeq([k \in 1..MaxLicks |-> k], LAMBDA k : CellsOf(r)[k] > 0)
            IN  /\ LickTable.rows[r].LickTimes = [j \in 1..Len(pos) |-> Num(CellsOf(r)[pos[j]])]
                /\ LickTable.rows[r].LickSides = [j \in 1..Len(pos) |-> Num(CellsOf(half + r)[pos[j]])]
                /\ Len(LickTable.rows[r].LickSides) = Len(LickTable.rows[r].LickTimes)

\* a row whose first cell is 0 and whose last cell holds a time has that
\* time in LickTimes
C24_TimeAfterZeroKept ==
    /\ data # <<>>
    /\ \E r \in 1..Len(LickTable.rows) :
          /\ CellsOf(r)[1] = 0 /\ CellsOf(r)[MaxLicks] > 0
          /\ LickTable.rows[r].LickTimes = <<Num(CellsOf(r)[MaxLicks])>>

----------------------------------------------------------------------------
(* add_stim_isi_metrics on one trial table, and the three derivations on    *)
(* one trial table in any order                                             *)

DeriveInputCols == GngInputCols \cup {"SE_Time_ms"}

IsiOnsetVals == {NaN, Num(-5), Num(10), Num(30), Num(40), Num(20001)}

DerivePlainRows ==
    [Trial : {1}, SE_strength : {Num(Rat(0, 1)), Num(Rat(2, 1))},
     SE_Time_ms : {<<>>, <<Num(30), Num(10)>>}, TrOutcome : {Num(1)},
     TrStartTime : {Num(100)}, RWStartTime : {Num(101)}, RWEndTime : {Num(130)},
     LickTimes : {<<>>, <<Num(125), Num(105)>>}]

\* one trial with every onset list of up to MaxStim + 1 onsets
InitDeriveIsi ==
    \E se \in {NaN, Num(Rat(0, 1)), Num(Rat(2, 1))}, n \in 0..(MaxStim + 1) :
       \E S \in [1..n -> IsiOnsetVals] :
          /\ params = DefaultParams
          /\ df = <<[Trial |-> 1, SE_strength |-> se, SE_Time_ms |-> S, TrOutcome |-> Num(1),
                     TrStartTime |-> Num(100), RWStartTime |-> Num(101),
                     RWEndTime |-> Num(130), LickTimes |-> <<Num(105)>>]>>

\* tables of up to MaxTrials trials, with either alignment of the lick times
InitDeriveTable ==
    /\ \E ab \in BOOLEAN :
          params = [DefaultParams EXCEPT !.lick_times_are_absolute = ab,
                                         !.early_lick_cutoff_ms = Num(5)]
    /\ \E n \in 1..MaxTrials : \E t \in [1..n -> DerivePlainRows] : df = Renumber(t)

InitIsi ==
    /\ data = <<>>
    /\ cols = DeriveInputCols
    /\ summary = <<>>
    /\ rt_runs = 0
    /\ built = "none"
    /\ load = NoLoad
    /\ err = "none"
    /\ InitDeriveIsi

NextIsi == AddStimIsiMetrics

SpecIsi == InitIsi /\ [][NextIsi]_vars

InitDerive ==
    /\ data = <<>>
    /\ cols = DeriveInputCols
    /\ summary = <<>>
    /\ rt_runs = 0
    /\ built = "none"
    /\ load = NoLoad
    /\ err = "none"
    /\ InitDeriveTable

NextDerive == AddReactionTimeColumns \/ AddStimIsiMetrics \/ AddGngOutcomes

SpecDerive == InitDerive /\ [][NextDerive]_vars

----------------------------------------------------------------------------
(* Properties of add_stim_isi_metrics *)

\* the elements of a set of numbers in ascending order
SortedSeqOf(S) ==
    CHOOSE s \in [1..Cardinality(S) -> S] :
        \A a, b \in 1..Cardinality(S) : a < b => s[a] < s[b]

\* the differences of the consecutive distinct valid onsets of a trial
ConsecutiveIsi(r) ==
    LET t == SortedSeqOf(ValidOnsets(r))
    IN  [k \in 1..(Len(t) - 1) |-> t[k + 1] - t[k]]

\* m is a median of the sequence d: half of its elements at least are <= m
\* and half at least are >= m, m being the middle element or the mean of
\* the two middle ones
IsMedianOf(m, d) ==
    LET lo == {k \in 1..Len(d) : Rat(d[k], 1).n * m.d <= m.n}
        hi == {k \in 1..Len(d) : Rat(d[k], 1).n * m.d >= m.n}
        below == {k \in 1..Len(d) : Rat(d[k], 1).n * m.d < m.n}
        above == {k \in 1..Len(d) : Rat(d[k], 1).n * m.d > m.n}
    IN  /\ 2 * Cardinality(lo) >= Len(d) /\ 2 * Cardinality(hi) >= Len(d)
        /\ Cardinality(below) = Cardinality(above)
              \/ \E k \in 1..Len(d) : Rat(d[k], 1) = m

\* C22: after add_stim_isi_metrics, a trial with SE_strength > 0 has Stim_N
\* = the number of distinct valid onsets; with Stim_N >= 2 the median ISI is
\* the median of the consecutive differences of the sorted distinct onsets
\* and ISI1 the second minus the first; with Stim_N < 2 both are null; a
\* trial with SE_strength 0 or null has Stim_N 0 and both null.
C22_IsiMetrics ==
    IsiNewCols \subseteq cols =>
        \A i \in 1..Len(df) :
            LET r == df[i]
                S == ValidOnsets(r)
            IN  IF IsFinite(r.SE_strength) /\ Val(r.SE_strength).n > 0
                THEN /\ r.Stim_N = Cardinality(S)
                     /\ IF Cardinality(S) >= 2
                        THEN /\ IsFinite(r.Stim_MedianISI_ms)
                             /\ IsMedianOf(Val(r.Stim_MedianISI_ms), ConsecutiveIsi(r))
                             /\ r.Stim_ISI1_ms = Num(SortedSeqOf(S)[2] - SortedSeqOf(S)[1])
                        ELSE r.Stim_MedianISI_ms = NaN /\ r.Stim_ISI1_ms = NaN
                ELSE r.Stim_N = 0 /\ r.Stim_MedianISI_ms = NaN /\ r.Stim_ISI1_ms = NaN

\* a stimulus trial with three distinct valid onsets out of order, whose
\* two intervals differ: the median is between them
C22_Witness ==
    /\ IsiNewCols \subseteq cols
    /\ \E i \in 1..Len(df) :
          /\ df[i].Stim_N = 3
          /\ df[i].SE_Time_ms[1] = Num(40)
          /\ df[i].Stim_ISI1_ms = Num(20)
          /\ df[i].Stim_MedianISI_ms = Num(Rat(15, 1))

\* a trial without stimulus whose onset list holds valid onsets has no ISI
C22_NoStimWitness ==
    /\ IsiNewCols \subseteq cols
    /\ \E i \in 1..Len(df) :
          /\ df[i].SE_strength = Num(Rat(0, 1)) /\ Cardinality(ValidOnsets(df[i])) >= 2
          /\ df[i].Stim_N = 0

----------------------------------------------------------------------------
(* Properties of the three derivations together *)

\* the trial table as it was before any derivation: the input columns
DeriveInput == [i \in 1..Len(df) |-> Restrict(df[i], DeriveInputCols)]

ApplyRt(t) ==
    [i \in 1..Len(t) |->
        RtRow(t[i], params.lick_times_are_absolute, params.early_lick_cutoff_ms)]

ApplyIsi(t) == [i \in 1..Len(t) |-> IsiRow(t[i])]

ApplyGng(t) ==
    [i \in 1..Len(t) |->
        GngRow(t[i], DetectOutcomeCol(DeriveInputCols)[1], params.lick_times_are_absolute)]

\* the tables the six orders of the three derivations give
SixOrders(t) ==
    {ApplyGng(ApplyIsi(ApplyRt(t))), ApplyIsi(ApplyGng(ApplyRt(t))),
     ApplyGng(ApplyRt(ApplyIsi(t))), ApplyRt(ApplyGng(ApplyIsi(t))),
     ApplyIsi(ApplyRt(ApplyGng(t))), ApplyRt(ApplyIsi(ApplyGng(t)))}

\* the derived columns of the table are those of the table full
DerivedAgree(full) ==
    /\ Len(df) = Len(full)
    /\ \A i \in 1..Len(df) :
          /\ DOMAIN df[i] = cols
          /\ \A c \in cols : df[i][c] = full[i][c]

\* a call leaves every column the table had as it was
ColumnsKept ==
    /\ cols \subseteq cols'
    /\ Len(df') = Len(df)
    /\ \A i \in 1..Len(df) : \A c \in cols : df'[i][c] = df[i][c]

\* C27: add_reaction_time_columns, add_stim_isi_metrics and add_gng_outcomes
\* commute: the six orders give the same table, the table reached by any
\* sequence of calls holds for each derived column it has the value of that
\* table, and a call changes no column that was there before it.
C27_DerivationsCommute ==
    /\ [](LET six == SixOrders(DeriveInput)
          IN  Cardinality(six) = 1 /\ \A full \in six : DerivedAgree(full))
    /\ [][ColumnsKept]_vars

\* the three derivations have been applied to a table with a Hit that has a
\* reaction time and two onsets
C27_Witness ==
    /\ RtNewCols \cup IsiNewCols \cup GngNewCols \subseteq cols
    /\ \E i \in 1..Len(df) :
          /\ df[i].Outcome_GNG = "Hit"
          /\ IsFinite(df[i].RT_ms)
          /\ df[i].Stim_N = 2

----------------------------------------------------------------------------
(* filter_trials_gng (dataSorter_GNG.py)                                    *)
(*                                                                          *)
(* a holds the keyword arguments of the call, NaN for None; outcomes is     *)
(* <<>> for None or <<list>>, an element of the list being a code or a      *)
(* label.  The calls are made with date_min = date_max = None (lines 86 to  *)
(* 102 are skipped), outcome_col = None and the default column names.       *)

RatLeq(p, q) == p.n * q.d <= q.n * p.d

name2code ==
    [k \in {"hit", "miss", "fa", "falsealarm", "false_alarm", "cr", "correctrejection",
            "correct_rejection", "autoreward", "auto_reward", "premature",
            "prematurelick", "premature_lick"} |->
        CASE k = "hit" -> 1
          [] k = "miss" -> 2
          [] k \in {"fa", "falsealarm", "false_alarm"} -> 3
          [] k \in {"cr", "correctrejection", "correct_rejection"} -> 4
          [] k \in {"autoreward", "auto_reward"} -> 5
          [] k \in {"premature", "prematurelick", "premature_lick"} -> 6]

OutcomeCode(c) == [kind |-> "code", label |-> "", code |-> c]

OutcomeLabel(l) == [kind |-> "label", label |-> l, code |-> 0]

\* wanted_codes; the labels are known ones
WantedCodes(outcomes) ==
    {IF outcomes[k].kind = "label" THEN name2code[outcomes[k].label] ELSE outcomes[k].code :
        k \in 1..Len(outcomes)}

RtRequested(a) == a.rt_min # NaN \/ a.rt_max # NaN

Isi1Requested(a) == a.isi1_min # NaN \/ a.isi1_max # NaN

MedianRequested(a) == a.median_isi_min # NaN \/ a.median_isi_max # NaN

\* the exception the call raises on a table of columns c, "none" if it
\* returns.  Without SE_strength line 68 calls fillna on the int that
\* pd.to_numeric(df.get("SE_strength", 0)) is.
FilterErr(a, c) ==
    IF "SE_strength" \notin c THEN "AttributeError"
    ELSE IF a.outcomes # <<>> /\ "Outcome_GNG_Code" \notin c THEN "KeyError"
    ELSE IF a.outcomes # <<>> /\ \E k \in 1..Len(a.outcomes[1]) :
                /\ a.outcomes[1][k].kind = "label"
                /\ a.outcomes[1][k].label \notin DOMAIN name2code
    THEN "ValueError"
    ELSE IF RtRequested(a) /\ "RT_ms" \notin c THEN "KeyError"
    ELSE IF Isi1Requested(a) /\ "Stim_ISI1_ms" \notin c THEN "KeyError"
    ELSE IF MedianRequested(a) /\ "Stim_MedianISI_ms" \notin c THEN "KeyError"
    ELSE "none"

\* the number of distinct non-null stimulated elements, 0 without the column
NElem(row, c) ==
    IF "SE_StimElem" \in c
    THEN Cardinality({Val(row.SE_StimElem[k]) :
                         k \in {j \in 1..Len(row.SE_StimElem) : IsFinite(row.SE_StimElem[j])}})
    ELSE 0

\* keep[i] of a row, for a call that raises nothing
FilterKeep(a, row, c) ==
    LET se      == IF IsFinite(row.SE_strength) THEN Val(row.SE_strength) ELSE Rat(0, 1)
        is_nogo == se.n = 0
        is_stim == se.n > 0
        strength_keep ==
            /\ a.strength_min # NaN => RatLeq(Val(a.strength_min), se)
            /\ a.strength_max # NaN => RatLeq(se, Val(a.strength_max))
        nelem_keep ==
            /\ a.n_elem_min # NaN => NElem(row, c) >= Val(a.n_elem_min)
            /\ a.n_elem_max # NaN => NElem(row, c) <= Val(a.n_elem_max)
        stim_filters == strength_keep /\ nelem_keep
        within(x, lo, hi) ==
            /\ IsFinite(x)
            /\ lo # NaN => Val(x) >= Val(lo)
            /\ hi # NaN => Val(x) <= Val(hi)
        ratwithin(x, lo, hi) ==
            /\ IsFinite(x)
            /\ lo # NaN => RatLeq(Val(lo), Val(x))
            /\ hi # NaN => RatLeq(Val(x), Val(hi))
    IN  /\ IF a.use_NoGo THEN stim_filters \/ is_nogo ELSE stim_filters
        /\ a.outcomes # <<>> =>
              /\ IsFinite(row.Outcome_GNG_Code)
              /\ Val(row.Outcome_GNG_Code) \in WantedCodes(a.outcomes[1])
        /\ RtRequested(a) => within(row.RT_ms, a.rt_min, a.rt_max)
        /\ Isi1Requested(a) =>
              ~is_stim \/ within(row.Stim_ISI1_ms, a.isi1_min, a.isi1_max)
        /\ MedianRequested(a) =>
              ~is_stim \/ ratwithin(row.Stim_MedianISI_ms, a.median_isi_min, a.median_isi_max)

FilterTrialsGngWith(a) ==
    /\ err = "none"
    /\ IF FilterErr(a, cols) # "none"
       THEN /\ err' = FilterErr(a, cols)
            /\ df' = df
       ELSE /\ df' = SelectSeq(df, LAMBDA r : FilterKeep(a, r, cols))
            /\ err' = err
    /\ UNCHANGED <<data, cols, summary, params, rt_runs, built, load>>

NoFilter ==
    [strength_min |-> NaN, strength_max |-> NaN, n_elem_min |-> NaN, n_elem_max |-> NaN,
     use_NoGo |-> FALSE, outcomes |-> <<>>, rt_min |-> NaN, rt_max |-> NaN,
     isi1_min |-> NaN, isi1_max |-> NaN, median_isi_min |-> NaN, median_isi_max |-> NaN]

FilterArgs ==
    {NoFilter,
     [NoFilter EXCEPT !.strength_min = Num(Rat(1, 1))],
     [NoFilter EXCEPT !.strength_min = Num(Rat(1, 1)), !.use_NoGo = TRUE],
     [NoFilter EXCEPT !.n_elem_min = Num(2)],
     [NoFilter EXCEPT !.outcomes = <<<<OutcomeCode(1)>>>>],
     [NoFilter EXCEPT !.outcomes = <<<<OutcomeLabel("cr"), OutcomeLabel("miss")>>>>],
     [NoFilter EXCEPT !.outcomes = <<<<OutcomeLabel("go")>>>>],
     [NoFilter EXCEPT !.rt_min = Num(0)],
     [NoFilter EXCEPT !.isi1_max = Num(15)],
     [NoFilter EXCEPT !.median_isi_min = Num(Rat(31, 2))]}

FilterTrialsGng == \E a \in FilterArgs : FilterTrialsGngWith(a)

\* the trial tables handed to the derivations and the filter
FilterInputCols == DeriveInputCols \cup {"SE_StimElem"}

FilterPlainRows ==
    {[Trial |-> 1, SE_strength |-> Num(Rat(2, 1)),
      SE_Time_ms |-> <<Num(30), Num(10), Num(40)>>,
      SE_StimElem |-> <<Num(3), Num(4), Num(3)>>, TrOutcome |-> Num(1),
      TrStartTime |-> Num(100), RWStartTime |-> Num(101), RWEndTime |-> Num(130),
      LickTimes |-> lk] : lk \in {<<>>, <<Num(125), Num(115)>>}}
    \cup
    {[Trial |-> 1, SE_strength |-> Num(Rat(0, 1)), SE_Time_ms |-> <<>>,
      SE_StimElem |-> <<>>, TrOutcome |-> Num(1),
      TrStartTime |-> Num(100), RWStartTime |-> Num(101), RWEndTime |-> Num(130),
      LickTimes |-> <<>>]}

InitFilter ==
    /\ data = <<>>
    /\ summary = <<>>
    /\ params = DefaultParams
    /\ rt_runs = 0
    /\ built = "none"
    /\ load = NoLoad
    /\ err = "none"
    /\ \E drop \in {{}, {"SE_strength"}, {"SE_Time_ms"}, {"LickTimes"}, {"TrOutcome"},
                    {"SE_StimElem"}} :
          /\ cols = FilterInputCols \ drop
          /\ \E n \in 1..MaxTrials : \E t \in [1..n -> FilterPlainRows] :
                df = [i \in 1..n |-> Restrict(Renumber(t)[i], cols)]

NextFilter ==
    AddReactionTimeColumns \/ AddStimIsiMetrics \/ AddGngOutcomes \/ FilterTrialsGng

SpecFilter == InitFilter /\ [][NextFilter]_vars

----------------------------------------------------------------------------
(* Properties of the derivations and the filter on a table that lacks a     *)
(* column                                                                   *)

\* the columns a call of filter_trials_gng with arguments a depends on,
\* among those C23 names
FilterReads(a) ==
    {"SE_strength"}
    \cup (IF a.outcomes # <<>> THEN {"Outcome_GNG_Code"} ELSE {})
    \cup (IF RtRequested(a) THEN {"RT_ms"} ELSE {})
    \cup (IF Isi1Requested(a) THEN {"Stim_ISI1_ms"} ELSE {})
    \cup (IF MedianRequested(a) THEN {"Stim_MedianISI_ms"} ELSE {})

\* the call ended in the missing-column error and gave no table
MissingColumnError == err' = "KeyError" /\ df' = df /\ cols' = cols

\* a derivation called on a table that lacks a column it depends on ends in
\* the missing-column error
DerivationsRaiseKeyError ==
    /\ AddReactionTimeColumns /\ ~(RtRequired \subseteq cols) => MissingColumnError
    /\ AddStimIsiMetrics /\ ~(IsiRequired \subseteq cols) => MissingColumnError
    /\ AddGngOutcomes /\ ~(GngRequired \subseteq cols /\ DetectOutcomeCol(cols) # <<>>) =>
          MissingColumnError

\* C23: a derivation or a filter called on a table that lacks a column it
\* depends on (add_reaction_time_columns, add_gng_outcomes, the original
\* outcome column included, add_stim_isi_metrics, filter_trials_gng on
\* SE_strength, Outcome_GNG_Code, RT_ms and the ISI columns) fails with the
\* missing-column error and returns no table.
C23_MissingColumnIsKeyError ==
    [][/\ DerivationsRaiseKeyError
       /\ \A a \in FilterArgs :
             FilterTrialsGngWith(a) /\ ~(FilterReads(a) \subseteq cols) =>
                 MissingColumnError]_vars

\* what holds: the derivations raise KeyError, and so does the filter for
\* Outcome_GNG_Code, RT_ms and the ISI columns when the table has SE_strength
C23_KeyErrorExceptStrength ==
    [][/\ DerivationsRaiseKeyError
       /\ \A a \in FilterArgs :
             /\ FilterTrialsGngWith(a)
             /\ "SE_strength" \in cols
             /\ ~(FilterReads(a) \subseteq cols)
             => MissingColumnError]_vars

\* filter_trials_gng was called on a table without SE_strength: the call
\* ended in an AttributeError
C23_FilterWithoutStrength == err = "AttributeError" /\ "SE_strength" \notin cols

\* each of the three derivations and the filter ended in KeyError on some
\* table
C23_KeyErrorReached == err = "KeyError"

----------------------------------------------------------------------------
(* build_trial_data on tables that were not made by the loaders: a lick     *)
(* table with rows whose trial number is not a number, a backbone with      *)
(* negative trial numbers                                                   *)

RawLickTrials == {NaN, Num(-1), Num(1)}

InitBuildRaw ==
    /\ df = <<>>
    /\ cols = {}
    /\ summary = <<>>
    /\ params = DefaultParams
    /\ rt_runs = 0
    /\ built = "none"
    /\ load = NoLoad
    /\ err = "none"
    /\ \E tn \in [1..MaxTrials -> {-1} \cup 1..MaxTrials], m \in 1..MaxTrials,
          withN \in BOOLEAN :
          \E lt \in [1..m -> RawLickTrials] :
             LET tr == [present |-> TRUE, cols |-> TrialsCols \cup {"Trial"},
                        rows |-> [i \in 1..MaxTrials |->
                                     Assign(TrialsRow(i, Num(5)), [Trial |-> Num(tn[i])])]]
                 row(i) == [Trial |-> lt[i], LickTimes |-> <<Num(150 * i)>>,
                            LickSides |-> <<Num(1)>>, NLicks |-> Num(1)]
                 lkcols == IF withN THEN {"Trial", "LickTimes", "LickSides", "NLicks"}
                           ELSE {"Trial", "LickTimes", "LickSides"}
                 lk == [present |-> TRUE, cols |-> lkcols,
                        rows |-> [i \in 1..m |-> Restrict(row(i), lkcols)]]
             IN  data = <<Session1(tr, LastTrialStim, lk)>>

SpecBuildRaw == InitBuildRaw /\ [][NextBuild]_vars

\* the lick rows of the session of output row r whose trial number is that
\* of r
MatchingLickRows(r) ==
    SelectSeq(SessionOf(r).lick.rows, LAMBDA x : x.Trial = r.Trial)

\* the lick fields of r are the empty defaults, or come from a lick row whose
\* trial number is that of r
LickFromOwnTrial(r) ==
    \/ r.LickTimes = <<>> /\ r.LickSides = <<>> /\ r.NLicks = 0
    \/ \E k \in 1..Len(MatchingLickRows(r)) :
          /\ r.LickTimes = MatchingLickRows(r)[k].LickTimes
          /\ r.LickSides = MatchingLickRows(r)[k].LickSides
          /\ r.NLicks = Len(MatchingLickRows(r)[k].LickTimes)

\* C29: in the table of build_trial_data, the LickTimes, LickSides and
\* NLicks of every row come from a lick row whose trial number equals the
\* row's Trial, or are the empty defaults; a lick row whose trial number is
\* not a number is attached to no trial, whatever integer, negative ones
\* included, the backbone carries.
C29_UnresolvedLickRowUnattached ==
    built # "none" => \A i \in 1..Len(df) : LickFromOwnTrial(df[i])

\* what holds: the claim for the rows whose trial number is not -1
C29_HoldsExceptMinusOne ==
    built # "none" =>
        \A i \in 1..Len(df) : df[i].Trial # Num(-1) => LickFromOwnTrial(df[i])

\* a backbone trial numbered -1 carries the licks of a lick row whose trial
\* number is not a number, the session having no lick row numbered -1
C29_AttachedToMinusOne ==
    /\ built # "none"
    /\ \E i \in 1..Len(df) :
          /\ df[i].Trial = Num(-1)
          /\ Len(MatchingLickRows(df[i])) = 0
          /\ df[i].LickTimes # <<>>
          /\ \E x \in {SessionOf(df[i]).lick.rows[k] : k \in 1..Len(SessionOf(df[i]).lick.rows)} :
                x.Trial = NaN /\ x.LickTimes = df[i].LickTimes

----------------------------------------------------------------------------
(* load_all_sessions on a folder with subfolders (load_session.py)          *)
(*                                                                          *)
(* load.folder is the set of the csv files under the folder: [base, ftype,  *)
(* where, content], where = "top" for a file of the folder itself and "sub" *)
(* for one of a subfolder, content = "ok" or "malformed".  load.sessions    *)
(* receives the sessions table.                                             *)

FileTypes == <<"header", "lick", "stimuli", "trials">>

\* it: folder.rglob("*.csv") if recursive else folder.glob("*.csv")
Discovered(folder, recursive) == {f \in folder : recursive \/ f.where = "top"}

\* list_sessions: one row for each base that has a discovered file (and a
\* discovered trials file, with require_trials); the session "s2" is the
\* older one
ListSessions(folder, recursive, require_trials) ==
    LET files == Discovered(folder, recursive)
        has(b, t) == \E f \in files : f.base = b /\ f.ftype = t
        row(b) == [SessionBase |-> b, HasHeader |-> has(b, "header"),
                   HasLick |-> has(b, "lick"), HasStimuli |-> has(b, "stimuli"),
                   HasTrials |-> has(b, "trials")]
        listed(b) == (\E f \in files : f.base = b) /\ (require_trials => has(b, "trials"))
    IN  SelectSeq(<<row("s2"), row("s1")>>, LAMBDA r : listed(r.SessionBase))

\* what the loaders of session base find: each looks for folder / base_x.csv
\* in the folder itself
LoaderView(folder, base) ==
    LET top(t) == {f \in folder : f.base = base /\ f.ftype = t /\ f.where = "top"}
        state(t) == IF top(t) = {} THEN "missing" ELSE (CHOOSE f \in top(t) : TRUE).content
    IN  [base |-> base, trials |-> state("trials"), stimuli |-> state("stimuli"),
         header |-> state("header"),
         lick |-> CASE state("lick") = "missing" -> <<>>
                    [] state("lick") = "ok" -> <<LickFileOk>>
                    [] state("lick") = "malformed" -> <<LickFileOdd>>]

LoadAllSessionsFromFolder ==
    /\ err = "none"
    /\ ~load.returned
    /\ "folder" \in DOMAIN load
    /\ IF load.on_error \notin {"skip", "raise"}
       THEN /\ err' = "ValueError"
            /\ UNCHANGED <<data, load>>
       ELSE LET sessions == ListSessions(load.folder, load.recursive, load.require_trials)
                disk == [k \in 1..Len(sessions) |->
                            LoaderView(load.folder, sessions[k].SessionBase)]
                r == LoadLoop(disk, load.loaders, load.on_error)
            IN  IF r.raised # "none"
                THEN /\ err' = r.raised
                     /\ UNCHANGED <<data, load>>
                ELSE /\ data' = r.data
                     /\ load' = [load EXCEPT !.returned = TRUE, !.sessions = sessions]
                     /\ err' = err
    /\ UNCHANGED <<df, cols, summary, params, rt_runs, built>>

\* where the file of a type is: nowhere, in the folder (well-formed or not),
\* in a subfolder
FilePlaces == {<<>>, <<"top", "ok">>, <<"top", "malformed">>, <<"sub", "ok">>}

FolderOf(base, place) ==
    {[base |-> base, ftype |-> FileTypes[k], where |-> place[k][1], content |-> place[k][2]] :
        k \in {j \in 1..Len(FileTypes) : place[j] # <<>>}}

InitFolder ==
    /\ data = <<>>
    /\ df = <<>>
    /\ cols = {}
    /\ summary = <<>>
    /\ params = DefaultParams
    /\ rt_runs = 0
    /\ built = "none"
    /\ err = "none"
    /\ \E oe \in {"skip", "raise", "ignore"}, rec \in BOOLEAN, req \in BOOLEAN, two \in BOOLEAN :
          \E place \in [1..Len(FileTypes) -> FilePlaces] :
             load = [on_error |-> oe, loaders |-> FileTypes, disk |-> <<>>, returned |-> FALSE,
                     recursive |-> rec, require_trials |-> req, sessions |-> <<>>,
                     folder |-> FolderOf("s1", place)
                                \cup (IF two
                                      THEN FolderOf("s2", <<<<>>, <<>>, <<>>, <<"top", "ok">>>>)
                                      ELSE {})]

NextFolder == LoadAllSessionsFromFolder

SpecFolder == InitFolder /\ [][NextFolder]_vars

----------------------------------------------------------------------------
(* Properties of load_all_sessions on a folder *)

\* the sessions table says that session row has a file of type t
HasFile(row, t) ==
    CASE t = "header" -> row.HasHeader
      [] t = "lick" -> row.HasLick
      [] t = "stimuli" -> row.HasStimuli
      [] t = "trials" -> row.HasTrials

\* the discovered file of type t of session base is well-formed
WellFormed(base, t) ==
    \A f \in Discovered(load.folder, load.recursive) :
        f.base = base /\ f.ftype = t => f.content = "ok"

\* every file the sessions table reports as present, if well-formed, has its
\* table in data
ReportedFilesLoaded ==
    load.returned =>
        /\ Len(data) = Len(load.sessions)
        /\ \A k \in 1..Len(data) :
              /\ data[k].base = load.sessions[k].SessionBase
              /\ \A t \in {"header", "lick", "stimuli", "trials"} :
                    HasFile(load.sessions[k], t) /\ WellFormed(data[k].base, t) =>
                        data[k][t].present

\* C30: in the result of load_all_sessions, the data entry of a file kind of
\* a session is non-null whenever the sessions table reports the file as
\* present and the file is well-formed, with recursive = False and with
\* recursive = True.
C30_ReportedFilesLoaded == ReportedFilesLoaded

\* what holds: the statement for recursive = False
C30_HoldsNotRecursive == ~load.recursive => ReportedFilesLoaded

\* with recursive = True a session whose well-formed trials file is in a
\* subfolder is reported with HasTrials and has no trials table
C30_SubfolderFileNotLoaded ==
    /\ load.returned /\ load.recursive
    /\ \E k \in 1..Len(data) :
          /\ load.sessions[k].HasTrials /\ WellFormed(data[k].base, "trials")
          /\ ~data[k].trials.present

====
